---- MODULE Spec2Model ----
(***************************************************************************)
(* Excel-Data-Converter: the classification-and-extraction engine of      *)
(* src/index.tsx.  A workbook is classified by detectFileType, and the    *)
(* Item-Master extractors (processItemMasterFile, processItemMasterV2File) *)
(* fold the data rows of the chosen sheet into the output tables.          *)
(***************************************************************************)
EXTENDS Integers, Sequences, FiniteSets, TLC

VARIABLES
    pc,                 \* position of the running function
    workbook,           \* the workbook handed to detectFileType: <<[name, rows]>>
    detected,           \* the value detectFileType returned
    rawData,            \* sheet_to_json grid of the sheet an extractor reads
    options,            \* CsvGenerationOptions handed to the extractor
    df_template,        \* the normalised rows the extractor iterates over
    idx,                \* index of the next element of df_template
    masteritemsData, barcodesData, dimensionsData,
    seenUids, seenBrands, seenManufacturers, seenErpCategories,   \* v1
    brandsMap, manufacturersMap, erpCategoriesMap,                \* v2
    csvs,               \* the CsvFile list the extractor returns
    error,              \* message of the Error thrown, '' if none
    log,                \* the status events passed to updateStatus
    itemsData, suppliersMap,    \* processStoreItemsFile
    storesData,                 \* processStoresFile
    factsData,                  \* processFactsFile
    call, content,              \* an arrayToCsv call: its arguments, the text returned
    files,                      \* the workbooks of the selected Excel files
    fileInfos,                  \* App state: [type, status, error] per selected file
    csvOptions,                 \* App state: the options chosen by the user
    processingState, statusUpdates, errorMessage,     \* App state
    phase,                      \* position of handleFilesChange / handleProcess
    fileIndex,                  \* index of the file at hand (0-based, as in the source)
    results,                    \* handleFilesChange: the detection results
    allGeneratedCsvs, hasProcessedAnyFile, localErrorMessages,   \* handleProcess locals
    zip,                        \* handleProcess: the entries of the JSZip archive, by name
    zipUrl,                     \* App state: the download link of the archive, or null
    selections,                 \* the calls of handleFilesChange that are still awaiting
    uncaught                    \* the exception a state updater threw, if any

vars == <<pc, workbook, detected, rawData, options, df_template, idx,
          masteritemsData, barcodesData, dimensionsData,
          seenUids, seenBrands, seenManufacturers, seenErpCategories,
          brandsMap, manufacturersMap, erpCategoriesMap, csvs, error, log,
          itemsData, suppliersMap, storesData, factsData, call, content,
          files, fileInfos, csvOptions, processingState, statusUpdates, errorMessage,
          phase, fileIndex, results,
          allGeneratedCsvs, hasProcessedAnyFile, localErrorMessages,
          zip, zipUrl, selections, uncaught>>

extractVars == <<rawData, options, df_template, idx,
                 masteritemsData, barcodesData, dimensionsData,
                 seenUids, seenBrands, seenManufacturers, seenErpCategories,
                 brandsMap, manufacturersMap, erpCategoriesMap, csvs, error>>

\* the state of the Item-Master extractors
itemMasterVars == <<masteritemsData, barcodesData, dimensionsData,
                    seenUids, seenBrands, seenManufacturers, seenErpCategories,
                    brandsMap, manufacturersMap, erpCategoriesMap>>

\* the state the Item-Master extractors never touch
\* an arrayToCsv call on its own
csvVars == <<call, content>>

\* the state of the App component and of its handlers
appVars == <<files, fileInfos, csvOptions, processingState, statusUpdates, errorMessage,
             phase, fileIndex, results,
             allGeneratedCsvs, hasProcessedAnyFile, localErrorMessages,
             zip, zipUrl, selections, uncaught>>

\* the archive handleProcess builds
archiveVars == <<zip, zipUrl>>

\* the calls of handleFilesChange in flight
selectVars == <<selections, uncaught>>

restVars == <<itemsData, suppliersMap, storesData, factsData, csvVars, appVars>>

-----------------------------------------------------------------------------
(* Bounds of the model.                                                    *)
MaxSheets == 2          \* sheets in a workbook
MaxRows == 2            \* data rows after the header row

-----------------------------------------------------------------------------
(* JavaScript values.  A value is a record [t, v]: t is the typeof tag and *)
(* v the text String(value) yields (for null and undefined v is empty).    *)
Null == [t |-> "null", v |-> ""]
Undefined == [t |-> "undefined", v |-> ""]
Str(s) == [t |-> "string", v |-> s]
Num(s) == [t |-> "number", v |-> s]

IsNullish(x) == x.t \in {"null", "undefined"}

\* String(x)
JsString(x) ==
    IF x.t = "null" THEN "null"
    ELSE IF x.t = "undefined" THEN "undefined"
    ELSE x.v

\* Boolean(x): null, undefined, '', 0 and NaN are falsy
Truthy(x) ==
    \/ x.t = "string" /\ x.v # ""
    \/ x.t = "number" /\ x.v \notin {"0", "NaN"}
    \/ x.t = "date"

WhiteSpace == {" ", "\t", "\n", "\r"}

SetMin(S) == CHOOSE m \in S : \A n \in S : m <= n
SetMax(S) == CHOOSE m \in S : \A n \in S : m >= n

\* String.prototype.trim
Trim(s) ==
    LET keep == {i \in 1..Len(s) : SubSeq(s, i, i) \notin WhiteSpace}
    IN  IF keep = {} THEN "" ELSE SubSeq(s, SetMin(keep), SetMax(keep))

\* String.prototype.includes
Includes(s, kw) ==
    \E i \in 1..(Len(s) - Len(kw) + 1) : SubSeq(s, i, i + Len(kw) - 1) = kw

\* Array.prototype.join: null and undefined elements join as ''
RECURSIVE Join(_, _)
Join(row, sep) ==
    IF Len(row) = 0 THEN ""
    ELSE LET h == IF IsNullish(row[1]) THEN "" ELSE JsString(row[1])
         IN  IF Len(row) = 1 THEN h ELSE h \o sep \o Join(Tail(row), sep)

-----------------------------------------------------------------------------
(* File type detection.                                                    *)

FILE_TYPE_DEFINITIONS(type) ==
    CASE type = "STORE" -> <<"Store UID*">>
      [] type = "STORE_ITEMS" -> <<"Store UID*", "Product UID*", "In assortment?", "Purchase price">>
      [] type = "FACTS" -> <<"Product UID*", "Store UID*", "Date*">>
      [] type = "ITEM_MASTER_V2" -> <<"UID*", "Product name*", "Manufacturer UID">>
      [] type = "ITEM_MASTER" -> <<"UID*", "Product name*", "Barcode", "Manufacturer">>
      [] type = "STOCK" -> <<"StoreID", "ItemUID", "Quantity">>
      [] type = "PRICE" -> <<"ItemUID", "PriceList", "Price">>

typeCheckOrderSwapped ==
    <<"ITEM_MASTER", "ITEM_MASTER_V2", "STORE_ITEMS", "FACTS", "STORE", "STOCK", "PRICE">>

typeCheckOrder ==
    <<"ITEM_MASTER_V2", "ITEM_MASTER", "STORE_ITEMS", "FACTS", "STORE", "STOCK", "PRICE">>

ScanLimitOneMore == 20 + 1

\* "Search first 20 rows for keywords"
ScanLimit == 20

\* a row matches as soon as it holds a string cell
RowMatchesAnyText(row, keywords) == \E c \in 1..Len(row) : row[c].t = "string"

\* row.some(cell => typeof cell === 'string' &&
\*                  definition.keywords.every(kw => row.join('|').includes(kw)))
RowMatches(row, keywords) ==
    \E c \in 1..Len(row) :
        /\ row[c].t = "string"
        /\ \A k \in 1..Len(keywords) : Includes(Join(row, "|"), keywords[k])

\* for (let i = 0; i < Math.min(20, jsonData.length); i++)
RECURSIVE ScanRows(_, _, _)
ScanRows(jsonData, keywords, i) ==
    IF i >= (IF ScanLimit < Len(jsonData) THEN ScanLimit ELSE Len(jsonData)) THEN FALSE
    ELSE IF RowMatches(jsonData[i + 1], keywords) THEN TRUE
    ELSE ScanRows(jsonData, keywords, i + 1)

\* for (const sheetName of sheetNames): the name of the first matching sheet
RECURSIVE ScanSheets(_, _, _)
ScanSheets(wb, keywords, s) ==
    IF s > Len(wb) THEN Null
    ELSE IF ScanRows(wb[s].rows, keywords, 0) THEN Str(wb[s].name)
    ELSE ScanSheets(wb, keywords, s + 1)

\* for (const type of typeCheckOrder)
RECURSIVE ScanTypes(_, _)
ScanTypes(wb, t) ==
    IF t > Len(typeCheckOrder) THEN [type |-> "UNKNOWN", sheetName |-> Null]
    ELSE LET hit == ScanSheets(wb, FILE_TYPE_DEFINITIONS(typeCheckOrder[t]), 1)
         IN  IF hit # Null THEN [type |-> typeCheckOrder[t], sheetName |-> hit]
             ELSE ScanTypes(wb, t + 1)

detectFileType(wb) == ScanTypes(wb, 1)

-----------------------------------------------------------------------------
(* Workbooks given to the detector.  A sheet is a run of blank rows        *)
(* followed by at most one fingerprint row.                                *)

SheetNames == <<"Sheet1", "Sheet2", "Sheet3", "Sheet4">>

BlankRow == <<Null, Null>>

RECURSIVE Blanks(_)
Blanks(n) == IF n = 0 THEN <<>> ELSE <<BlankRow>> \o Blanks(n - 1)

DetectRows ==
    { <<Str("UID*"), Str("Product name*"), Str("Manufacturer UID")>>,
      <<Str("UID*"), Str("Product name*"), Str("Barcode"), Str("Manufacturer UID")>>,
      <<Str("UID*"), Str("Product name*"), Str("Barcode"), Str("Manufacturer")>>,
      <<Str("Store UID*"), Str("Product UID*"), Str("In assortment?"), Str("Purchase price")>>,
      <<Str("Product UID*"), Str("Store UID*"), Str("Date*")>>,
      <<Str("Store UID*"), Str("Store name*"), Null, Str("Region")>>,
      <<Str("StoreID"), Str("ItemUID"), Str("Quantity")>>,
      <<Str("ItemUID"), Str("PriceList"), Str("Price")>>,
      <<Str("UID*"), Str("Product name*")>>,
      <<Str("Report"), Num("2024")>>,
      <<Num("1"), Num("45000"), Null>> }

DetectSheets ==
    {<<>>} \cup { Blanks(p) \o <<r>> : p \in {0, ScanLimit - 1, ScanLimit}, r \in DetectRows }

\* the workbook with sheets f[1], ..., f[n], named in order
MakeWorkbook(f, n) == [s \in 1..n |-> [name |-> SheetNames[s], rows |-> f[s]]]

-----------------------------------------------------------------------------
NoCsv == call = <<>> /\ content = ""

\* no file is selected
NoApp ==
    /\ files = <<>> /\ fileInfos = <<>> /\ csvOptions = <<>>
    /\ processingState = "idle" /\ statusUpdates = <<>> /\ errorMessage = ""
    /\ phase = "idle" /\ fileIndex = 0 /\ results = <<>>
    /\ allGeneratedCsvs = <<>> /\ hasProcessedAnyFile = FALSE /\ localErrorMessages = ""
    /\ zip = <<>> /\ zipUrl = Null
    /\ selections = <<>> /\ uncaught = ""

NoTables ==
    itemsData = <<>> /\ suppliersMap = <<>> /\ storesData = <<>> /\ factsData = <<>>

NoRest == NoTables /\ NoCsv /\ NoApp

\* no extractor has run
NoExtractor ==
    /\ NoTables
    /\ rawData = <<>> /\ df_template = <<>> /\ idx = 0
    /\ masteritemsData = <<>> /\ barcodesData = <<>> /\ dimensionsData = <<>>
    /\ seenUids = <<>> /\ seenBrands = <<>> /\ seenManufacturers = <<>>
    /\ seenErpCategories = <<>>
    /\ brandsMap = <<>> /\ manufacturersMap = <<>> /\ erpCategoriesMap = <<>>
    /\ csvs = <<>> /\ error = "" /\ log = <<>>

NoExtract ==
    /\ NoRest
    /\ rawData = <<>> /\ options = <<>> /\ df_template = <<>> /\ idx = 0
    /\ masteritemsData = <<>> /\ barcodesData = <<>> /\ dimensionsData = <<>>
    /\ seenUids = <<>> /\ seenBrands = <<>> /\ seenManufacturers = <<>>
    /\ seenErpCategories = <<>>
    /\ brandsMap = <<>> /\ manufacturersMap = <<>> /\ erpCategoriesMap = <<>>
    /\ csvs = <<>> /\ error = "" /\ log = <<>>

InitDetect ==
    /\ pc = "detect"
    /\ \E n \in 0..MaxSheets : \E f \in [1..n -> DetectSheets] : workbook = MakeWorkbook(f, n)
    /\ detected = [type |-> "UNKNOWN", sheetName |-> Null]
    /\ NoExtract

StatusUpdate(message, status) == [message |-> message, status |-> status]

\* generateCsvsFromExcel up to
\* const { type: detectedType, sheetName } = detectFileType(workbook)
Detect ==
    /\ pc = "detect"
    /\ log' = Append(log, StatusUpdate("Reading and analyzing Excel file...", "processing"))
    /\ detected' = detectFileType(workbook)
    /\ pc' = "detected"
    /\ UNCHANGED <<workbook, extractVars, restVars>>

NextDetect == Detect

SpecDetect == InitDetect /\ [][NextDetect]_vars

-----------------------------------------------------------------------------
(* Number parsing.  A number is Num(text) with text its String() form.     *)

Digits == {"0", "1", "2", "3", "4", "5", "6", "7", "8", "9"}
NaN == Num("NaN")

Ch(s, i) == IF i >= 1 /\ i <= Len(s) THEN SubSeq(s, i, i) ELSE ""

\* index of the first character that is not white space (Len(s) + 1 if none)
SkipWs(s) ==
    LET keep == {i \in 1..Len(s) : Ch(s, i) \notin WhiteSpace}
    IN  IF keep = {} THEN Len(s) + 1 ELSE SetMin(keep)

\* index of the last character of the run of digits starting at i (i - 1 if none)
DigitEnd(s, i) ==
    LET ok == {j \in i..Len(s) : \A k \in i..j : Ch(s, k) \in Digits}
    IN  IF ok = {} THEN i - 1 ELSE SetMax(ok)

StripLeadingZeros(d) ==
    LET nz == {i \in 1..Len(d) : Ch(d, i) # "0"}
    IN  IF nz = {} THEN "0" ELSE SubSeq(d, SetMin(nz), Len(d))

StripTrailingZeros(f) ==
    LET nz == {i \in 1..Len(f) : Ch(f, i) # "0"}
    IN  IF nz = {} THEN "" ELSE SubSeq(f, 1, SetMax(nz))

\* parseInt(s, 10)
ParseInt(s) ==
    LET a == SkipWs(s)
        b == IF Ch(s, a) \in {"+", "-"} THEN a + 1 ELSE a
        e == DigitEnd(s, b)
        d == StripLeadingZeros(SubSeq(s, b, e))
    IN  IF e < b THEN NaN
        ELSE Num(IF Ch(s, a) = "-" /\ d # "0" THEN "-" \o d ELSE d)

\* parseFloat(s), for decimal literals without an exponent
ParseFloat(s) ==
    LET a == SkipWs(s)
        b == IF Ch(s, a) \in {"+", "-"} THEN a + 1 ELSE a
        e == DigitEnd(s, b)
        fe == IF Ch(s, e + 1) = "." THEN DigitEnd(s, e + 2) ELSE e
        ip == IF e < b THEN "0" ELSE StripLeadingZeros(SubSeq(s, b, e))
        fp == IF fe > e + 1 THEN StripTrailingZeros(SubSeq(s, e + 2, fe)) ELSE ""
        mag == IF fp = "" THEN ip ELSE ip \o "." \o fp
    IN  IF e < b /\ fe <= e + 1 THEN NaN
        ELSE Num(IF Ch(s, a) = "-" /\ mag # "0" THEN "-" \o mag ELSE mag)

\* s.replace(',', '.'): the first comma only
ReplaceComma(s) ==
    LET at == {i \in 1..Len(s) : Ch(s, i) = ","}
    IN  IF at = {} THEN s
        ELSE SubSeq(s, 1, SetMin(at) - 1) \o "." \o SubSeq(s, SetMin(at) + 1, Len(s))

\* x || d
OrElse(x, d) == IF Truthy(x) THEN x ELSE d

-----------------------------------------------------------------------------
(* Map<string, any> and Set<string>, in insertion order.                   *)

MapHas(m, k) == \E i \in 1..Len(m) : m[i].key = k
MapGet(m, k) == m[CHOOSE i \in 1..Len(m) : m[i].key = k].value
MapSet(m, k, val) ==
    IF MapHas(m, k)
    THEN [i \in 1..Len(m) |-> IF m[i].key = k THEN [key |-> k, value |-> val] ELSE m[i]]
    ELSE Append(m, [key |-> k, value |-> val])
MapValues(m) == [i \in 1..Len(m) |-> m[i].value]

SetHas(st, x) == \E i \in 1..Len(st) : st[i] = x
SetAdd(st, x) == IF SetHas(st, x) THEN st ELSE Append(st, x)

-----------------------------------------------------------------------------
(* Reading a sheet and normalising its rows.                               *)

\* workbook.Sheets[sheetName]
SheetRows(wb, sheetName) ==
    wb[CHOOSE s \in 1..Len(wb) : Str(wb[s].name) = sheetName].rows

\* XLSX.utils.sheet_to_json(worksheet, { header: 1, defval: null, raw: false }):
\* every cell that holds a value comes back as its formatted text
SheetToJsonFormatted(rows) ==
    [r \in 1..Len(rows) |->
        [c \in 1..Len(rows[r]) |->
            IF IsNullish(rows[r][c]) THEN Null ELSE Str(rows[r][c].v)]]

\* the header search stops where the scan of detectFileType stops
FindHeaderRowInScan(grid, keywords) ==
    LET found == {i \in 1..Len(grid) :
                    /\ i <= ScanLimit
                    /\ \E c \in 1..Len(grid[i]) :
                          /\ grid[i][c].t = "string"
                          /\ \E k \in 1..Len(keywords) : Includes(grid[i][c].v, keywords[k])}
    IN  IF found = {} THEN -1 ELSE SetMin(found) - 1

\* the header search of the extractors: the first row with a string cell that
\* contains some keyword (0-based; -1 if there is none)
FindHeaderRow(grid, keywords) ==
    LET found == {i \in 1..Len(grid) :
                    \E c \in 1..Len(grid[i]) :
                        /\ grid[i][c].t = "string"
                        /\ \E k \in 1..Len(keywords) : Includes(grid[i][c].v, keywords[k])}
    IN  IF found = {} THEN -1 ELSE SetMin(found) - 1

\* rawData[headerRowIndex].map(h => String(h || '').trim())
HeaderLabels(headerRow) ==
    [c \in 1..Len(headerRow) |->
        Trim(IF Truthy(headerRow[c]) THEN JsString(headerRow[c]) ELSE "")]

\* headers.forEach((header, index) => { if (header) rowObject[header] = ... })
RowObject(headers, row) ==
    [h \in {headers[c] : c \in {c \in 1..Len(headers) : headers[c] # ""}} |->
        LET c == SetMax({d \in 1..Len(headers) : headers[d] = h})
            value == IF c <= Len(row) THEN row[c] ELSE Undefined
        IN  IF value.t = "string" THEN Str(Trim(value.v)) ELSE value]

\* row[label]
Get(row, label) == IF label \in DOMAIN row THEN row[label] ELSE Undefined

\* val !== null && val !== undefined && String(val).trim() !== ''
NonBlank(x) == ~IsNullish(x) /\ Trim(JsString(x)) # ""

\* options.<name> ?? true
OptionOn(opts, name) == IF name \in DOMAIN opts THEN opts[name] ELSE TRUE

getTodayDateString == "20240115"

CsvFile(table, data, columns) ==
    [name |-> table \o "_" \o getTodayDateString \o ".csv", data |-> data, columns |-> columns]

-----------------------------------------------------------------------------
(* processItemMasterFile (V1).                                             *)

levelMapping == <<"Segment", "Family", "Class", "Brick">>

\* the first row after the header that holds a non-blank cell, and all after it
V1DataRows(grid, headerRowIndex) ==
    LET starts == {i \in (headerRowIndex + 2)..Len(grid) :
                     \E c \in 1..Len(grid[i]) :
                         grid[i][c] # Null /\ Trim(JsString(grid[i][c])) # ""}
    IN  IF starts = {} THEN <<>> ELSE SubSeq(grid, SetMin(starts), Len(grid))

V1MainUnitUid(row, uid) ==
    LET given == Get(row, "Main Unit UID")
        unitName == Get(row, "Unit")
    IN  IF IsNullish(given) \/ Trim(JsString(given)) = ""
        THEN IF Truthy(unitName) /\ Trim(JsString(unitName)) # ""
             THEN Str(uid \o "_" \o Trim(JsString(unitName)))
             ELSE Str(uid \o "_01")
        ELSE given

V1ItemRecord(row, uid) ==
    [item_uid |-> Str(uid),
     name |-> Get(row, "Product name*"),
     manufacturer_uid |-> Get(row, "Manufacturer"),
     brand_uid |-> Get(row, "Brand"),
     is_fractional |-> IF Truthy(Get(row, "Is fractional?"))
                       THEN OrElse(ParseInt(JsString(Get(row, "Is fractional?"))), Num("0"))
                       ELSE Num("0"),
     additional_1 |-> Get(row, "Segment Description"),
     additional_2 |-> Get(row, "Family Description"),
     additional_3 |-> Get(row, "Class Description"),
     additional_4 |-> Get(row, "Brick Description"),
     main_unit_uid |-> V1MainUnitUid(row, uid),
     erp_category_uid |-> Get(row, "Brick Code")]

BarcodeRecord(row, uid) ==
    [item_uid |-> Str(uid), barcode |-> Get(row, "Barcode"), is_main |-> Num("1")]

\* parseFloat(String(row[col] || '').replace(',', '.')) || dflt
V1Measure(row, col, dflt) ==
    OrElse(ParseFloat(ReplaceComma(JsString(OrElse(Get(row, col), Str(""))))), dflt)

V1DimensionRecord(row, uid) ==
    [item_uid |-> Str(uid),
     unit_name |-> Get(row, "Unit"),
     width |-> V1Measure(row, "Width", Num("0")),
     height |-> V1Measure(row, "Height", Num("0")),
     depth |-> V1Measure(row, "Length", Num("0")),
     netweight |-> V1Measure(row, "Netweight", Null),
     volume |-> V1Measure(row, "Volume", Null),
     dimension_uid |-> V1MainUnitUid(row, uid),
     coef |-> Num("1"),
     is_deleted |-> Num("0")]

\* a later row replaces the category registered for the code
V1RegistersAgain(seen, catUid) == Truthy(catUid)

\* if (catUid && !seenErpCategories.has(String(catUid)))
V1Registers(seen, catUid) == Truthy(catUid) /\ ~MapHas(seen, JsString(catUid))

\* Object.values(levelMapping).forEach((levelName, index) => ...), from index on
RECURSIVE V1Categories(_, _, _)
V1Categories(seen, row, index) ==
    IF index >= Len(levelMapping) THEN seen
    ELSE LET levelName == levelMapping[index + 1]
             catUid == Get(row, levelName \o " Code")
             parent == IF index > 0 THEN Get(row, levelMapping[index] \o " Code") ELSE Null
             entry == [erp_category_uid |-> catUid,
                       name |-> Get(row, levelName \o " Description"),
                       parent_category_uid |-> parent]
         IN  V1Categories(
                 IF V1Registers(seen, catUid)
                 THEN MapSet(seen, JsString(catUid), entry) ELSE seen,
                 row, index + 1)

-----------------------------------------------------------------------------
(* Item-Master input: one sheet, a header row that carries the fingerprint *)
(* of the type, and at most MaxRows data rows drawn column by column.      *)

RECURSIVE Product(_)
Product(doms) ==
    IF Len(doms) = 0 THEN {<<>>}
    ELSE {<<x>> \o r : x \in doms[1], r \in Product(Tail(doms))}

\* a family of inputs: the labels of the header row, the cells each column may hold,
\* and the options the extractor may be called with
Family(labels, doms, opts) == [labels |-> labels, rows |-> Product(doms), opts |-> opts]

FamilySheet(fam, data) == <<[c \in 1..Len(fam.labels) |-> Str(fam.labels[c])]>> \o data

NoOptions == { <<>> }
SomeOptions == { <<>>, [brands |-> FALSE, erpcategories |-> FALSE] }

InitExtract(families) ==
    /\ pc = "detect"
    /\ \E fam \in families : \E n \in 0..MaxRows : \E data \in [1..n -> fam.rows] :
          /\ workbook = <<[name |-> "Sheet1", rows |-> FamilySheet(fam, data)]>>
          /\ options \in fam.opts
    /\ detected = [type |-> "UNKNOWN", sheetName |-> Null]
    /\ NoRest
    /\ rawData = <<>> /\ df_template = <<>> /\ idx = 0
    /\ masteritemsData = <<>> /\ barcodesData = <<>> /\ dimensionsData = <<>>
    /\ seenUids = <<>> /\ seenBrands = <<>> /\ seenManufacturers = <<>>
    /\ seenErpCategories = <<>>
    /\ brandsMap = <<>> /\ manufacturersMap = <<>> /\ erpCategoriesMap = <<>>
    /\ csvs = <<>> /\ error = "" /\ log = <<>>

V1Families ==
    { Family(<<"UID*", "Product name*", "Barcode", "Manufacturer">>,
             <<{Null, Str("X1"), Str(" X1 "), Str("X2")}, {Str("n1"), Str("n2")}, {Null}, {Null}>>,
             NoOptions),
      Family(<<"UID*", "Product name*", "Barcode", "Manufacturer", "Brand", "Unit">>,
             <<{Null, Str("X1")}, {Str("n1")}, {Null, Str("b1"), Str("b2")}, {Str("M1")},
               {Str("Acme")}, {Null, Str("kg")}>>,
             SomeOptions),
      Family(<<"UID*", "Product name*", "Barcode", "Manufacturer",
               "Segment Code", "Family Code", "Class Code">>,
             <<{Str("X1")}, {Str("n1")}, {Null}, {Null},
               {Null, Str("A")}, {Null, Str("A"), Str("B")}, {Null, Str("B")}>>,
             NoOptions) }

InitV1 == InitExtract(V1Families)

\* processItemMasterFile up to the row loop
V1Begin ==
    /\ pc = "detected"
    /\ detected.type = "ITEM_MASTER"
    /\ LET grid == SheetToJsonFormatted(SheetRows(workbook, detected.sheetName))
           headerRowIndex == FindHeaderRow(grid, FILE_TYPE_DEFINITIONS("ITEM_MASTER"))
           headers == HeaderLabels(grid[headerRowIndex + 1])
           dataRows == V1DataRows(grid, headerRowIndex)
       IN  /\ rawData' = grid
           /\ log' = Append(log, StatusUpdate("Processing Masteritems file", "processing"))
           /\ IF headerRowIndex = -1
              THEN /\ pc' = "failed"
                   /\ error' = "Could not find header row in Masteritems file."
                   /\ UNCHANGED <<df_template, idx>>
              ELSE /\ pc' = "rows"
                   /\ df_template' = [r \in 1..Len(dataRows) |-> RowObject(headers, dataRows[r])]
                   /\ idx' = 1
                   /\ UNCHANGED error
    /\ UNCHANGED restVars
    /\ UNCHANGED <<workbook, detected, options, masteritemsData, barcodesData, dimensionsData,
                   seenUids, seenBrands, seenManufacturers, seenErpCategories,
                   brandsMap, manufacturersMap, erpCategoriesMap, csvs>>

\* the item record is pushed for every row, seen or not
V1PushAlways(seen, uid) == TRUE

\* if (!seenUids.has(uid))
V1PushItem(seen, uid) == ~SetHas(seen, uid)

\* the barcode is pushed only with the item record
V1PushBarcodeWithItem(row, seen, uid) == Truthy(Get(row, "Barcode")) /\ ~SetHas(seen, uid)

\* if (row['Barcode']) barcodesData.push(...): seenUids plays no part
V1PushBarcode(row, seen, uid) == Truthy(Get(row, "Barcode"))

\* one iteration of df_template.forEach(row => ...)
V1Row ==
    /\ pc = "rows"
    /\ detected.type = "ITEM_MASTER"
    /\ idx <= Len(df_template)
    /\ idx' = idx + 1
    /\ LET row == df_template[idx]
           uidValue == Get(row, "UID*")
           uid == Trim(JsString(uidValue))
       IN  IF IsNullish(uidValue) \/ uid = ""
           THEN UNCHANGED <<masteritemsData, barcodesData, dimensionsData, seenUids,
                            seenBrands, seenManufacturers, seenErpCategories>>
           ELSE /\ masteritemsData' = IF V1PushItem(seenUids, uid)
                                      THEN Append(masteritemsData, V1ItemRecord(row, uid))
                                      ELSE masteritemsData
                /\ seenUids' = SetAdd(seenUids, uid)
                /\ barcodesData' = IF V1PushBarcode(row, seenUids, uid)
                                   THEN Append(barcodesData, BarcodeRecord(row, uid))
                                   ELSE barcodesData
                /\ seenBrands' = IF Truthy(Get(row, "Brand"))
                                 THEN SetAdd(seenBrands, JsString(Get(row, "Brand")))
                                 ELSE seenBrands
                /\ dimensionsData' = IF Truthy(Get(row, "Unit"))
                                     THEN Append(dimensionsData, V1DimensionRecord(row, uid))
                                     ELSE dimensionsData
                /\ seenErpCategories' = V1Categories(seenErpCategories, row, 0)
                /\ seenManufacturers' = IF Truthy(Get(row, "Manufacturer"))
                                        THEN SetAdd(seenManufacturers, JsString(Get(row, "Manufacturer")))
                                        ELSE seenManufacturers
    /\ UNCHANGED restVars
    /\ UNCHANGED <<pc, workbook, detected, rawData, options, df_template,
                   brandsMap, manufacturersMap, erpCategoriesMap, csvs, error, log>>

MASTERITEMS_V1_COLS ==
    <<"item_uid", "name", "manufacturer_uid", "brand_uid", "is_fractional", "additional_1",
      "additional_2", "additional_3", "additional_4", "main_unit_uid", "erp_category_uid">>
BARCODES_COLS == <<"item_uid", "barcode", "is_main">>
BRANDS_COLS == <<"brand_uid", "name", "is_deleted">>
MANUFACTURERS_COLS == <<"manufacturer_uid", "name", "is_deleted">>
ERPCATEGORIES_COLS == <<"erp_category_uid", "name", "parent_category_uid">>
DIMENSIONS_V1_COLS ==
    <<"item_uid", "unit_name", "width", "height", "depth", "netweight", "volume",
      "dimension_uid", "coef", "is_deleted">>

\* [...seenBrands].map(b => ({ brand_uid: b, name: b, is_deleted: 0 }))
V1BrandRecords(seen) ==
    [i \in 1..Len(seen) |-> [brand_uid |-> Str(seen[i]), name |-> Str(seen[i]), is_deleted |-> Num("0")]]
V1ManufacturerRecords(seen) ==
    [i \in 1..Len(seen) |->
        [manufacturer_uid |-> Str(seen[i]), name |-> Str(seen[i]), is_deleted |-> Num("0")]]

\* a table is pushed if its option is on (or absent) and its collection is not empty
\* the table is emitted whenever it is non-empty, whatever the option says
GatedIgnoringOption(opts, name, data, columns) ==
    IF Len(data) > 0 THEN <<CsvFile(name, data, columns)>> ELSE <<>>

Gated(opts, name, data, columns) ==
    IF OptionOn(opts, name) /\ Len(data) > 0 THEN <<CsvFile(name, data, columns)>> ELSE <<>>

\* processItemMasterFile after the row loop
V1Finish ==
    /\ pc = "rows"
    /\ detected.type = "ITEM_MASTER"
    /\ idx > Len(df_template)
    /\ pc' = "done"
    /\ IF Len(masteritemsData) = 0
       THEN /\ csvs' = <<>>
            /\ log' = Append(log, StatusUpdate("No valid item data found in Masteritems file, skipping CSV generation.", "success"))
       ELSE /\ csvs' = <<CsvFile("masteritems", masteritemsData, MASTERITEMS_V1_COLS)>>
                       \o Gated(options, "barcodes", barcodesData, BARCODES_COLS)
                       \o Gated(options, "brands", V1BrandRecords(seenBrands), BRANDS_COLS)
                       \o Gated(options, "dimensions", dimensionsData, DIMENSIONS_V1_COLS)
                       \o Gated(options, "erpcategories", MapValues(seenErpCategories), ERPCATEGORIES_COLS)
                       \o Gated(options, "manufacturers", V1ManufacturerRecords(seenManufacturers), MANUFACTURERS_COLS)
            /\ log' = Append(log, StatusUpdate("Masteritems processing complete.", "success"))
    /\ UNCHANGED restVars
    /\ UNCHANGED <<workbook, detected, rawData, options, df_template, idx,
                   masteritemsData, barcodesData, dimensionsData,
                   seenUids, seenBrands, seenManufacturers, seenErpCategories,
                   brandsMap, manufacturersMap, erpCategoriesMap, error>>

NextV1 == Detect \/ V1Begin \/ V1Row \/ V1Finish

SpecV1 == InitV1 /\ [][NextV1]_vars

-----------------------------------------------------------------------------
(* processItemMasterV2File (V2).                                           *)

NumCategoryLevels == 6

\* every row is kept, whatever its 'UID*'
V2KeptAll(row) == TRUE

\* .filter(row => row['UID*'] !== null && row['UID*'] !== undefined &&
\*                String(row['UID*']).trim() !== '')
V2Kept(row) == NonBlank(Get(row, "UID*"))

\* df_template after the filter
RECURSIVE V2Filter(_)
V2Filter(rows) ==
    IF Len(rows) = 0 THEN <<>>
    ELSE (IF V2Kept(rows[1]) THEN <<rows[1]>> ELSE <<>>) \o V2Filter(Tail(rows))

\* the UID column alone decides, the name is no fallback
V2EffectiveUidNoFallback(uidValue, nameValue) ==
    IF NonBlank(uidValue) THEN uidValue ELSE Null

\* UID first, else name, else null
V2EffectiveUid(uidValue, nameValue) ==
    IF NonBlank(uidValue) THEN uidValue
    ELSE IF NonBlank(nameValue) THEN nameValue
    ELSE Null

LevelText(level) == SubSeq("123456", level, level)
CatNameCol(level) == "Category level " \o LevelText(level)
CatUidCol(level) == CatNameCol(level) \o " UID"

\* for (let i = 6; i >= 1; i--): the first non-blank value of the columns
\* `Category level ${i}` + suffix
RECURSIVE V2DeepestNonBlank(_, _, _)
V2DeepestNonBlank(row, suffix, i) ==
    IF i < 1 THEN Null
    ELSE IF NonBlank(Get(row, CatNameCol(i) \o suffix)) THEN Get(row, CatNameCol(i) \o suffix)
    ELSE V2DeepestNonBlank(row, suffix, i - 1)

\* the item's category written as a path
V2ItemCategoryPath(row) ==
    LET byUid == V2DeepestNonBlank(row, " UID", NumCategoryLevels)
        id == IF byUid = Null THEN V2DeepestNonBlank(row, "", NumCategoryLevels) ELSE byUid
    IN  IF id = Null THEN Null ELSE Str("/" \o JsString(id))

\* the item's erpCategoryUid: the deepest UID column, and only if all UID columns
\* are blank the deepest name column
V2ItemCategoryUid(row) ==
    LET byUid == V2DeepestNonBlank(row, " UID", NumCategoryLevels)
    IN  IF byUid = Null THEN V2DeepestNonBlank(row, "", NumCategoryLevels) ELSE byUid

V2MainUnitUid(row, item_uid) ==
    LET given == OrElse(Get(row, "Main Unit UID"), Get(row, "Main unit UID"))
        unitName == Get(row, "Unit")
    IN  IF IsNullish(given) \/ Trim(JsString(given)) = ""
        THEN IF Truthy(unitName) /\ Trim(JsString(unitName)) # ""
             THEN Str(item_uid \o "_" \o Trim(JsString(unitName)))
             ELSE Str(item_uid \o "_01")
        ELSE given

\* parseFloat(String(row[col]).replace(',', '.')) || null
V2Number(row, col) == OrElse(ParseFloat(ReplaceComma(JsString(Get(row, col)))), Null)

\* parseInt(String(row[col]), 10) || 0
V2Int(row, col) == OrElse(ParseInt(JsString(Get(row, col))), Num("0"))

V2ItemRecord(row) ==
    [item_uid |-> Str(JsString(Get(row, "UID*"))),
     name |-> Get(row, "Product name*"),
     manufacturer_uid |-> V2EffectiveUid(Get(row, "Manufacturer UID"), Get(row, "Manufacturer")),
     brand_uid |-> V2EffectiveUid(Get(row, "Brand UID"), Get(row, "Brand")),
     is_fractional |-> V2Int(row, "Is fractional?"),
     main_unit_uid |-> V2MainUnitUid(row, JsString(Get(row, "UID*"))),
     is_deleted |-> V2Int(row, "To delete"),
     additional_1 |-> V2Number(row, "Add 1"),
     additional_2 |-> Get(row, "Add 2"),
     additional_3 |-> Get(row, "Add 3"),
     additional_4 |-> Get(row, "Add 4"),
     additional_5 |-> V2Number(row, "Add 5"),
     additional_6 |-> V2Number(row, "Add 6"),
     additional_7 |-> Get(row, "Add 7"),
     additional_8 |-> V2Number(row, "Add 8"),
     additional_9 |-> V2Number(row, "Add 9"),
     additional_10 |-> V2Number(row, "Add 10"),
     additional_11 |-> V2Number(row, "Add 11"),
     additional_12 |-> V2Number(row, "Add 12"),
     additional_13 |-> V2Number(row, "Add 13"),
     additional_14 |-> V2Number(row, "Add 14"),
     additional_15 |-> V2Number(row, "Add 15"),
     additional_16 |-> V2Number(row, "Add 16"),
     additional_17 |-> V2Number(row, "Add 17"),
     additional_18 |-> V2Number(row, "Add 18"),
     additional_19 |-> V2Number(row, "Add 19"),
     additional_20 |-> V2Number(row, "Add 20"),
     erp_category_uid |-> V2ItemCategoryUid(row)]

\* parseFloat((row[col] || '').toString().replace(',', '.')) || null
V2Measure(row, col) ==
    OrElse(ParseFloat(ReplaceComma(JsString(OrElse(Get(row, col), Str(""))))), Null)

V2DimensionRecord(row) ==
    [item_uid |-> Str(JsString(Get(row, "UID*"))),
     unit_name |-> Get(row, "Unit"),
     width |-> V2Measure(row, "Width (cm, in)"),
     height |-> V2Measure(row, "Height (cm, in)"),
     depth |-> V2Measure(row, "Depth (cm, in)"),
     coef |-> Num("1"),
     is_deleted |-> Num("0"),
     dimension_uid |-> V2MainUnitUid(row, JsString(Get(row, "UID*")))]

\* if (effectiveUid !== null) { if (!map.has(key)) map.set(key, {uid, name || uid, 0}) }
V2Register(map, uidField, effectiveUid, nameValue) ==
    IF effectiveUid # Null /\ ~MapHas(map, JsString(effectiveUid))
    THEN MapSet(map, JsString(effectiveUid),
                [f \in {uidField, "name", "is_deleted"} |->
                    IF f = uidField THEN effectiveUid
                    ELSE IF f = "name" THEN OrElse(nameValue, effectiveUid)
                    ELSE Num("0")])
    ELSE map

\* the running parent is reset at a level that is not populated
V2PreviousReset(previous, effective) == effective

\* previousLevelEffectiveUid after a level: it moves only at a populated level
V2Previous(previous, effective) == IF effective # Null THEN effective ELSE previous

\* the node is stored with the level's name as its id
V2CategoryEntryNameAsId(effective, nameValue, previous) ==
    [erp_category_uid |-> nameValue, name |-> nameValue, parent_category_uid |-> previous]

\* the node written for a level
V2CategoryEntry(effective, nameValue, previous) ==
    [erp_category_uid |-> effective, name |-> nameValue, parent_category_uid |-> previous]

\* !existingEntry || (existingEntry.name === null && currentNameValue !== null)
V2WritesNode(map, key, nameValue) ==
    ~MapHas(map, key) \/ (MapGet(map, key).name = Null /\ nameValue # Null)

\* for (let level = 1; level <= 6; level++), from level on
RECURSIVE V2Categories(_, _, _, _)
V2Categories(map, row, level, previous) ==
    IF level > NumCategoryLevels THEN map
    ELSE LET currentUidValue == Get(row, CatUidCol(level))
             currentNameValue == Get(row, CatNameCol(level))
             effective == V2EffectiveUid(currentUidValue, currentNameValue)
             key == JsString(effective)
         IN  V2Categories(
                 IF effective # Null /\ V2WritesNode(map, key, currentNameValue)
                 THEN MapSet(map, key, V2CategoryEntry(effective, currentNameValue, previous))
                 ELSE map,
                 row, level + 1, V2Previous(previous, effective))

V2Families ==
    { Family(<<"UID*", "Product name*", "Manufacturer UID", "Brand UID", "Brand">>,
             <<{Null, Str("X1")}, {Str("n1")}, {Null},
               {Null, Str(" "), Str("Acme")}, {Null, Str("Acme"), Str("Zed")}>>,
             NoOptions),
      Family(<<"UID*", "Product name*", "Manufacturer UID",
               "Category level 2 UID", "Category level 4 UID", "Category level 4">>,
             <<{Str("X1")}, {Str("n1")}, {Null},
               {Null, Str("A")}, {Null, Str("A"), Str("B")}, {Null, Str("B")}>>,
             NoOptions),
      Family(<<"UID*", "Product name*", "Manufacturer UID", "Manufacturer", "Barcode", "Unit",
               "Category level 2", "Category level 3 UID", "Category level 6">>,
             <<{Str("X1")}, {Str("n1")}, {Str("M1")}, {Str("Maker")}, {Str("b1")}, {Str("kg")},
               {Null, Str("C")}, {Null, Str("A")}, {Null, Str("B")}>>,
             SomeOptions) }

InitV2 == InitExtract(V2Families)

\* processItemMasterV2File up to the row loop
V2Begin ==
    /\ pc = "detected"
    /\ detected.type = "ITEM_MASTER_V2"
    /\ LET grid == SheetToJsonFormatted(SheetRows(workbook, detected.sheetName))
           headerRowIndex == FindHeaderRow(grid, FILE_TYPE_DEFINITIONS("ITEM_MASTER_V2"))
           headers == HeaderLabels(grid[headerRowIndex + 1])
           dataRows == SubSeq(grid, headerRowIndex + 2, Len(grid))
           kept == V2Filter([r \in 1..Len(dataRows) |-> RowObject(headers, dataRows[r])])
       IN  /\ rawData' = grid
           /\ IF headerRowIndex = -1
              THEN /\ pc' = "failed"
                   /\ error' = "Could not find header row in the new Masteritems file."
                   /\ log' = Append(log, StatusUpdate("Processing new Masteritems file", "processing"))
                   /\ UNCHANGED <<df_template, idx>>
              ELSE /\ df_template' = kept
                   /\ idx' = 1
                   /\ UNCHANGED error
                   /\ IF Len(kept) = 0
                      THEN /\ pc' = "done"
                           /\ log' = log \o <<StatusUpdate("Processing new Masteritems file", "processing"),
                                              StatusUpdate("No valid item data found in new Masteritems file, skipping CSV generation.", "success")>>
                      ELSE /\ pc' = "rows"
                           /\ log' = Append(log, StatusUpdate("Processing new Masteritems file", "processing"))
    /\ UNCHANGED restVars
    /\ UNCHANGED <<workbook, detected, options, masteritemsData, barcodesData, dimensionsData,
                   seenUids, seenBrands, seenManufacturers, seenErpCategories,
                   brandsMap, manufacturersMap, erpCategoriesMap, csvs>>

\* one iteration of df_template.forEach(row => ...)
V2Row ==
    /\ pc = "rows"
    /\ detected.type = "ITEM_MASTER_V2"
    /\ idx <= Len(df_template)
    /\ idx' = idx + 1
    /\ LET row == df_template[idx]
           effectiveBrandUid == V2EffectiveUid(Get(row, "Brand UID"), Get(row, "Brand"))
           effectiveManufUid == V2EffectiveUid(Get(row, "Manufacturer UID"), Get(row, "Manufacturer"))
       IN  /\ masteritemsData' = Append(masteritemsData, V2ItemRecord(row))
           /\ barcodesData' = IF Truthy(Get(row, "Barcode"))
                              THEN Append(barcodesData, BarcodeRecord(row, JsString(Get(row, "UID*"))))
                              ELSE barcodesData
           /\ brandsMap' = V2Register(brandsMap, "brand_uid", effectiveBrandUid, Get(row, "Brand"))
           /\ dimensionsData' = IF Truthy(Get(row, "Unit"))
                                THEN Append(dimensionsData, V2DimensionRecord(row))
                                ELSE dimensionsData
           /\ erpCategoriesMap' = V2Categories(erpCategoriesMap, row, 1, Null)
           /\ manufacturersMap' = V2Register(manufacturersMap, "manufacturer_uid",
                                             effectiveManufUid, Get(row, "Manufacturer"))
    /\ UNCHANGED restVars
    /\ UNCHANGED <<pc, workbook, detected, rawData, options, df_template,
                   seenUids, seenBrands, seenManufacturers, seenErpCategories,
                   csvs, error, log>>

MASTERITEMS_V2_COLS ==
    <<"item_uid", "name", "manufacturer_uid", "brand_uid", "is_fractional", "additional_1",
      "additional_2", "additional_3", "additional_4", "additional_5", "additional_6",
      "additional_7", "additional_8", "additional_9", "additional_10", "additional_11",
      "additional_12", "additional_13", "additional_14", "additional_15", "additional_16",
      "additional_17", "additional_18", "additional_19", "additional_20", "main_unit_uid",
      "erp_category_uid", "is_deleted">>
DIMENSIONS_V2_COLS ==
    <<"item_uid", "unit_name", "width", "height", "depth", "coef", "is_deleted", "dimension_uid">>

\* processItemMasterV2File after the row loop
V2Finish ==
    /\ pc = "rows"
    /\ detected.type = "ITEM_MASTER_V2"
    /\ idx > Len(df_template)
    /\ pc' = "done"
    /\ csvs' = <<CsvFile("masteritems", masteritemsData, MASTERITEMS_V2_COLS)>>
               \o Gated(options, "barcodes", barcodesData, BARCODES_COLS)
               \o Gated(options, "brands", MapValues(brandsMap), BRANDS_COLS)
               \o Gated(options, "dimensions", dimensionsData, DIMENSIONS_V2_COLS)
               \o Gated(options, "erpcategories", MapValues(erpCategoriesMap), ERPCATEGORIES_COLS)
               \o Gated(options, "manufacturers", MapValues(manufacturersMap), MANUFACTURERS_COLS)
    /\ log' = Append(log, StatusUpdate("New Masteritems processing complete.", "success"))
    /\ UNCHANGED restVars
    /\ UNCHANGED <<workbook, detected, rawData, options, df_template, idx,
                   masteritemsData, barcodesData, dimensionsData,
                   seenUids, seenBrands, seenManufacturers, seenErpCategories,
                   brandsMap, manufacturersMap, erpCategoriesMap, error>>

NextV2 == Detect \/ V2Begin \/ V2Row \/ V2Finish

SpecV2 == InitV2 /\ [][NextV2]_vars

\* either Item-Master extractor
InitIM == InitExtract(V1Families \cup V2Families)
NextIM == Detect \/ V1Begin \/ V1Row \/ V1Finish \/ V2Begin \/ V2Row \/ V2Finish
SpecIM == InitIM /\ [][NextIM]_vars

-----------------------------------------------------------------------------
(* processStoreItemsFile.                                                  *)

\* the rows after the header row, normalised as the row loops do
NormalisedRows(grid, headerRowIndex) ==
    LET headers == HeaderLabels(grid[headerRowIndex + 1])
        dataRows == SubSeq(grid, headerRowIndex + 2, Len(grid))
    IN  [r \in 1..Len(dataRows) |-> RowObject(headers, dataRows[r])]

\* a price that falls back to 0, as the flag fields do
SIPriceZeroDefault(row, col) ==
    OrElse(ParseFloat(ReplaceComma(JsString(OrElse(Get(row, col), Str("0"))))), Num("0"))

\* parseFloat(String(rowObject[col] || '0').replace(',', '.')) || null
SIPrice(row, col) ==
    OrElse(ParseFloat(ReplaceComma(JsString(OrElse(Get(row, col), Str("0"))))), Null)

\* parseInt(String(rowObject[col]), 10) || 0
IntOrZero(row, col) == OrElse(ParseInt(JsString(Get(row, col))), Num("0"))

\* every row gives an item record
SIQualifiesAny(row) == TRUE

\* if (storeUid && itemUid)
SIQualifies(row) == Truthy(Get(row, "Store UID*")) /\ Truthy(Get(row, "Product UID*"))

SIItemRecord(row) ==
    [store_uid |-> Get(row, "Store UID*"),
     item_uid |-> Get(row, "Product UID*"),
     is_active_planogram |-> IntOrZero(row, "In assortment?"),
     purchase_price |-> SIPrice(row, "Purchase price"),
     retail_price |-> SIPrice(row, "Sale price"),
     external_supplier_uid |-> Get(row, "Supplier UID")]

SISupplierRecord(row) ==
    [supplier_uid |-> Get(row, "Supplier UID"),
     name |-> Get(row, "Supplier"),
     is_deleted |-> Num("0")]

\* the supplier is set for every row that names one
SIRegistersAlways(map, row) == Truthy(Get(row, "Supplier UID"))

\* if (supplierUid && !suppliersMap.has(String(supplierUid)))
SIRegisters(map, row) ==
    Truthy(Get(row, "Supplier UID")) /\ ~MapHas(map, JsString(Get(row, "Supplier UID")))

SuppliersOff == { <<>>, [suppliers |-> FALSE] }

SIFamilies ==
    { Family(<<"Store UID*", "Product UID*", "In assortment?", "Purchase price">>,
             <<{Str("S1")}, {Str("P1")}, {Null, Str("1"), Str("x")},
               {Null, Str("12,50"), Str("0,00"), Str("abc")}>>,
             NoOptions),
      Family(<<"Store UID*", "Product UID*", "In assortment?", "Purchase price",
               "Sale price", "Supplier UID", "Supplier">>,
             <<{Null, Str("S1")}, {Str("P1")}, {Str(" ")}, {Str("7")},
               {Str("-3,5")}, {Null, Str("U1"), Str("U2")}, {Str("n1"), Str("n2")}>>,
             SuppliersOff) }

InitSI == InitExtract(SIFamilies)

\* processStoreItemsFile up to the row loop
SIBegin ==
    /\ pc = "detected"
    /\ detected.type = "STORE_ITEMS"
    /\ LET grid == SheetToJsonFormatted(SheetRows(workbook, detected.sheetName))
           headerRowIndex == FindHeaderRow(grid, FILE_TYPE_DEFINITIONS("STORE_ITEMS"))
       IN  /\ rawData' = grid
           /\ log' = Append(log, StatusUpdate("Processing Store Items file", "processing"))
           /\ IF headerRowIndex = -1
              THEN /\ pc' = "failed"
                   /\ error' = "Could not find a valid header row in the Items sheet."
                   /\ UNCHANGED <<df_template, idx>>
              ELSE /\ pc' = "rows"
                   /\ df_template' = NormalisedRows(grid, headerRowIndex)
                   /\ idx' = 1
                   /\ UNCHANGED error
    /\ UNCHANGED <<workbook, detected, options, itemMasterVars, csvs, restVars>>

\* one iteration of dataRows.forEach(row => ...)
SIRow ==
    /\ pc = "rows"
    /\ detected.type = "STORE_ITEMS"
    /\ idx <= Len(df_template)
    /\ idx' = idx + 1
    /\ LET row == df_template[idx]
       IN  IF SIQualifies(row)
           THEN /\ itemsData' = Append(itemsData, SIItemRecord(row))
                /\ suppliersMap' = IF SIRegisters(suppliersMap, row)
                                   THEN MapSet(suppliersMap, JsString(Get(row, "Supplier UID")),
                                               SISupplierRecord(row))
                                   ELSE suppliersMap
           ELSE UNCHANGED <<itemsData, suppliersMap>>
    /\ UNCHANGED <<pc, workbook, detected, rawData, options, df_template, itemMasterVars,
                   csvs, error, log, storesData, factsData, csvVars, appVars>>

ITEMS_COLS == <<"item_uid", "store_uid", "is_active_planogram", "purchase_price",
                "retail_price", "external_supplier_uid">>
SUPPLIERS_COLS == <<"supplier_uid", "name", "is_deleted">>

\* processStoreItemsFile after the row loop
SIFinish ==
    /\ pc = "rows"
    /\ detected.type = "STORE_ITEMS"
    /\ idx > Len(df_template)
    /\ pc' = "done"
    /\ IF Len(itemsData) = 0
       THEN /\ csvs' = <<>>
            /\ log' = Append(log, StatusUpdate("No valid data rows found in Items file, skipping CSV generation.", "success"))
       ELSE /\ csvs' = <<CsvFile("items", itemsData, ITEMS_COLS)>>
                       \o Gated(options, "suppliers", MapValues(suppliersMap), SUPPLIERS_COLS)
            /\ log' = Append(log, StatusUpdate("Store Items processing complete.", "success"))
    /\ UNCHANGED <<workbook, detected, rawData, options, df_template, idx, itemMasterVars,
                   error, restVars>>

NextSI == Detect \/ SIBegin \/ SIRow \/ SIFinish

SpecSI == InitSI /\ [][NextSI]_vars

-----------------------------------------------------------------------------
(* arrayToCsv.                                                             *)

\* parts.join(sep)
RECURSIVE JoinStrings(_, _)
JoinStrings(parts, sep) ==
    IF Len(parts) = 0 THEN ""
    ELSE IF Len(parts) = 1 THEN parts[1]
    ELSE parts[1] \o sep \o JoinStrings(Tail(parts), sep)

\* value.replace(/"/g, '""')
RECURSIVE DoubleQuotes(_)
DoubleQuotes(s) ==
    IF s = "" THEN ""
    ELSE (IF Ch(s, 1) = "\"" THEN "\"\"" ELSE Ch(s, 1)) \o DoubleQuotes(SubSeq(s, 2, Len(s)))

\* a field is quoted when it holds a comma, a quote or a line break
NeedsQuotesWithLineBreak(value) ==
    Includes(value, "\"") \/ Includes(value, ",") \/ Includes(value, "\n")

\* value.includes('"') || value.includes(',')
NeedsQuotes(value) == Includes(value, "\"") \/ Includes(value, ",")

\* every field is written as it is
CsvFieldUnquoted(value) == IF IsNullish(value) THEN "" ELSE JsString(value)

\* the text arrayToCsv writes for one field
CsvField(value) ==
    IF IsNullish(value) THEN ""
    ELSE IF NeedsQuotes(JsString(value))
         THEN "\"" \o DoubleQuotes(JsString(value)) \o "\""
         ELSE JsString(value)

CsvLine(row, columns) ==
    JoinStrings([c \in 1..Len(columns) |-> CsvField(Get(row, columns[c]))], ",")

arrayToCsv(data, columns) ==
    JoinStrings(columns, ",") \o "\n"
        \o JoinStrings([r \in 1..Len(data) |-> CsvLine(data[r], columns)], "\n")

\* the content of an emitted file
Content(csv) == arrayToCsv(csv.data, csv.columns)

-----------------------------------------------------------------------------
(* Dates.  A Date is [t |-> "date", v, time]: time is its time value in    *)
(* hours since the epoch, and v is 'Invalid Date' if the time value is   *)
(* NaN.                                                                    *)

InvalidDate == [t |-> "date", v |-> "Invalid Date", time |-> 0]
DateAt(hours) == [t |-> "date", v |-> "", time |-> hours]

\* the local offsets from UTC a runtime may have, in hours
TimezoneOffsets == {-12, -5, 0, 5, 14}

\* the value of a run of decimal digits
RECURSIVE ToNat(_)
ToNat(digits) ==
    IF digits = "" THEN 0
    ELSE 10 * ToNat(SubSeq(digits, 1, Len(digits) - 1))
         + (CHOOSE n \in 0..9 : ToString(n) = Ch(digits, Len(digits)))

RECURSIVE Pow10(_)
Pow10(n) == IF n = 0 THEN 1 ELSE 10 * Pow10(n - 1)

\* the hours a non-negative decimal number of days stands for, rounded down
HoursOfDays(text) ==
    LET dot == {i \in 1..Len(text) : Ch(text, i) = "."}
        whole == IF dot = {} THEN text ELSE SubSeq(text, 1, SetMin(dot) - 1)
        frac == IF dot = {} THEN "" ELSE SubSeq(text, SetMin(dot) + 1, Len(text))
    IN  ToNat(whole) * 24 + (ToNat(frac) * 24) \div Pow10(Len(frac))

\* the calendar date of a day number (days since 1970-01-01), proleptic Gregorian
CivilFromDays(z) ==
    LET s == z + 719468
        era == s \div 146097
        doe == s - era * 146097
        yoe == (doe - doe \div 1460 + doe \div 36524 - doe \div 146096) \div 365
        doy == doe - (365 * yoe + yoe \div 4 - yoe \div 100)
        mp == (5 * doy + 2) \div 153
        m == IF mp < 10 THEN mp + 3 ELSE mp - 9
    IN  [year |-> yoe + era * 400 + (IF m <= 2 THEN 1 ELSE 0),
         month |-> m,
         day |-> doy - (153 * mp + 2) \div 5 + 1]

\* the day number of a calendar date
DaysFromCivil(year, month, day) ==
    LET y == IF month <= 2 THEN year - 1 ELSE year
        era == y \div 400
        yoe == y - era * 400
        mp == IF month > 2 THEN month - 3 ELSE month + 9
        doy == (153 * mp + 2) \div 5 + day - 1
        doe == yoe * 365 + yoe \div 4 - yoe \div 100 + doy
    IN  era * 146097 + doe - 719468

\* getUTCFullYear / getUTCMonth + 1 / getUTCDate
UTCParts(date) == CivilFromDays(date.time \div 24)

\* getFullYear / getMonth + 1 / getDate, at the local offset
LocalParts(date, offset) == CivilFromDays((date.time + offset) \div 24)

\* new Date(year, monthIndex, day): local midnight of the calendar date
LocalMidnight(parts, offset) ==
    DateAt(DaysFromCivil(parts.year, parts.month, parts.day) * 24 - offset)

\* the serial is converted with the local date parts of the intermediate date
excelSerialDateToJSDateLocalParts(serial, offset) ==
    LocalMidnight(LocalParts(DateAt(HoursOfDays(serial) - 25569 * 24), offset), offset)

\* excelSerialDateToJSDate(serial), at the local offset
excelSerialDateToJSDate(serial, offset) ==
    LocalMidnight(UTCParts(DateAt(HoursOfDays(serial) - 25569 * 24)), offset)

\* String(n).padStart(2, '0')
Pad2(n) == IF n < 10 THEN "0" \o ToString(n) ELSE ToString(n)

\* formatDateToYYYYMMDD(date), at the local offset
formatDateToYYYYMMDD(date, offset) ==
    LET p == LocalParts(date, offset)
    IN  ToString(p.year) \o "-" \o Pad2(p.month) \o "-" \o Pad2(p.day)

\* new Date(text): a date-only ISO text is UTC midnight of that date; any other
\* text is parsed as the runtime sees fit, a date at local midnight or Invalid Date
DateParse(text, offset) ==
    CASE text = "2023-03-15" -> {DateAt(DaysFromCivil(2023, 3, 15) * 24)}
      [] text = "3/15/23" -> {LocalMidnight([year |-> 2023, month |-> 3, day |-> 15], offset),
                              InvalidDate}
      [] text = "45000" -> {LocalMidnight([year |-> 45000, month |-> 1, day |-> 1], offset),
                            InvalidDate}
      [] OTHER -> {InvalidDate}

-----------------------------------------------------------------------------
(* processFactsFile.                                                       *)

\* typeof dateValue === 'number' && dateValue > 1, for a non-negative number
IsSerial(x) == x.t = "number" /\ x.v # "NaN" /\ HoursOfDays(x.v) > 24

\* the date is taken from the string parse whatever the value is
FactsDateParseOnly(dateValue, offset, parsed) ==
    IF ~Truthy(dateValue) \/ parsed = InvalidDate THEN Null
    ELSE Str(formatDateToYYYYMMDD(parsed, offset))

\* formattedDate of a row: dateValue is rowObject['Date*'], parsed is the value
\* new Date(String(dateValue)) yields
FactsDate(dateValue, offset, parsed) ==
    IF ~Truthy(dateValue) THEN Null
    ELSE IF dateValue.t = "date" /\ dateValue # InvalidDate
         THEN Str(formatDateToYYYYMMDD(dateValue, offset))
    ELSE IF IsSerial(dateValue)
         THEN Str(formatDateToYYYYMMDD(excelSerialDateToJSDate(dateValue.v, offset), offset))
    ELSE IF parsed # InvalidDate
         THEN Str(formatDateToYYYYMMDD(parsed, offset))
    ELSE Null

FactsRecord(row, date) ==
    [item_uid |-> Get(row, "Product UID*"),
     store_uid |-> Get(row, "Store UID*"),
     date |-> date,
     stock |-> SIPrice(row, "Stock"),
     sold_qty |-> SIPrice(row, "Out sale"),
     revenue |-> SIPrice(row, "Revenue"),
     cogs |-> SIPrice(row, "COGS")]

\* every record is kept, with or without a date
FactsKeptWithoutDate(record) == Truthy(record.item_uid) /\ Truthy(record.store_uid)

\* .filter(row => row.item_uid && row.store_uid && row.date)
FactsKept(record) ==
    Truthy(record.item_uid) /\ Truthy(record.store_uid) /\ Truthy(record.date)

FactsFamilies ==
    { Family(<<"Product UID*", "Store UID*", "Date*">>,
             <<{Null, Str("P1")}, {Null, Str("S1")}, {Null, Str("2023-03-15"), Str("abc")}>>,
             NoOptions),
      Family(<<"Product UID*", "Store UID*", "Date*", "Stock">>,
             <<{Str("P1")}, {Str("S1")}, {Str("3/15/23"), Num("45000"), Str(" ")},
               {Null, Str("1,5")}>>,
             NoOptions) }

InitFacts == InitExtract(FactsFamilies)

\* processFactsFile up to dataRows.map
FactsBegin ==
    /\ pc = "detected"
    /\ detected.type = "FACTS"
    /\ LET grid == SheetToJsonFormatted(SheetRows(workbook, detected.sheetName))
           headerRowIndex == FindHeaderRow(grid, FILE_TYPE_DEFINITIONS("FACTS"))
       IN  /\ rawData' = grid
           /\ log' = Append(log, StatusUpdate("Processing Facts file", "processing"))
           /\ IF headerRowIndex = -1
              THEN /\ pc' = "failed"
                   /\ error' = "Could not find a valid header row in the Facts sheet."
                   /\ UNCHANGED <<df_template, idx>>
              ELSE /\ pc' = "rows"
                   /\ df_template' = NormalisedRows(grid, headerRowIndex)
                   /\ idx' = 1
                   /\ UNCHANGED error
    /\ UNCHANGED <<workbook, detected, options, itemMasterVars, csvs, restVars>>

\* one data row through dataRows.map(...).filter(...)
FactsRow ==
    /\ pc = "rows"
    /\ detected.type = "FACTS"
    /\ idx <= Len(df_template)
    /\ idx' = idx + 1
    /\ \E offset \in TimezoneOffsets :
       \E parsed \in DateParse(JsString(Get(df_template[idx], "Date*")), offset) :
          LET row == df_template[idx]
              record == FactsRecord(row, FactsDate(Get(row, "Date*"), offset, parsed))
          IN  factsData' = IF FactsKept(record) THEN Append(factsData, record) ELSE factsData
    /\ UNCHANGED <<pc, workbook, detected, rawData, options, df_template, itemMasterVars,
                   csvs, error, log, itemsData, suppliersMap, storesData, csvVars, appVars>>

FACTS_COLS == <<"item_uid", "store_uid", "date", "stock", "sold_qty", "revenue", "cogs">>

\* processFactsFile after the rows
FactsFinish ==
    /\ pc = "rows"
    /\ detected.type = "FACTS"
    /\ idx > Len(df_template)
    /\ pc' = "done"
    /\ IF Len(factsData) = 0
       THEN /\ csvs' = <<>>
            /\ log' = Append(log, StatusUpdate("No valid data rows found in Facts file, skipping CSV generation.", "success"))
       ELSE /\ csvs' = <<CsvFile("facts", factsData, FACTS_COLS)>>
            /\ log' = Append(log, StatusUpdate("Facts processing complete.", "success"))
    /\ UNCHANGED <<workbook, detected, rawData, options, df_template, idx, itemMasterVars,
                   error, restVars>>

NextFacts == Detect \/ FactsBegin \/ FactsRow \/ FactsFinish

SpecFacts == InitFacts /\ [][NextFacts]_vars

-----------------------------------------------------------------------------
(* processStoresFile.                                                      *)

StoreRecord(row) ==
    [store_uid |-> Get(row, "Store UID*"),
     name |-> Get(row, "Store name*"),
     region |-> Get(row, "Region"),
     group_name |-> Get(row, "Group name"),
     floor_space |-> IntOrZero(row, "Square"),
     in_shelf |-> IntOrZero(row, "In Shelf?"),
     licence_start_date |-> Str("2023-01-01"),
     is_deleted |-> IntOrZero(row, "To delete")]

\* every record is kept, with or without a store id
StoresKeptAll(record) == TRUE

\* .filter(row => row.store_uid)
StoresKept(record) == Truthy(record.store_uid)

StoresFamilies ==
    { Family(<<"Store UID*", "Store name*", "Region", "Square", "In Shelf?", "To delete">>,
             <<{Null, Str("S1"), Str("S2")}, {Str("Shop A")}, {Str("North")},
               {Str("120")}, {Str("1")}, {Str("")}>>,
             NoOptions),
      Family(<<"Store UID*", "Store name*", "Square", "In Shelf?", "To delete">>,
             <<{Str("S1")}, {Null, Str("Shop A")}, {Null, Str("120"), Str("abc")},
               {Str("1"), Str("x")}, {Str("1")}>>,
             NoOptions) }

InitStores == InitExtract(StoresFamilies)

\* processStoresFile up to dataRows.map
StoresBegin ==
    /\ pc = "detected"
    /\ detected.type = "STORE"
    /\ LET grid == SheetToJsonFormatted(SheetRows(workbook, detected.sheetName))
           headerRowIndex == FindHeaderRow(grid, FILE_TYPE_DEFINITIONS("STORE"))
       IN  /\ rawData' = grid
           /\ log' = Append(log, StatusUpdate("Processing Stores file", "processing"))
           /\ IF headerRowIndex = -1
              THEN /\ pc' = "failed"
                   /\ error' = "Could not find a valid header row in the Stores sheet."
                   /\ UNCHANGED <<df_template, idx>>
              ELSE /\ pc' = "rows"
                   /\ df_template' = NormalisedRows(grid, headerRowIndex)
                   /\ idx' = 1
                   /\ UNCHANGED error
    /\ UNCHANGED <<workbook, detected, options, itemMasterVars, csvs, restVars>>

\* one data row through dataRows.map(...).filter(...)
StoresRow ==
    /\ pc = "rows"
    /\ detected.type = "STORE"
    /\ idx <= Len(df_template)
    /\ idx' = idx + 1
    /\ storesData' = IF StoresKept(StoreRecord(df_template[idx]))
                     THEN Append(storesData, StoreRecord(df_template[idx]))
                     ELSE storesData
    /\ UNCHANGED <<pc, workbook, detected, rawData, options, df_template, itemMasterVars,
                   csvs, error, log, itemsData, suppliersMap, factsData, csvVars, appVars>>

STORES_COLS == <<"store_uid", "name", "region", "group_name", "floor_space", "in_shelf",
                 "licence_start_date", "is_deleted">>

\* processStoresFile after the rows
StoresFinish ==
    /\ pc = "rows"
    /\ detected.type = "STORE"
    /\ idx > Len(df_template)
    /\ pc' = "done"
    /\ IF Len(storesData) = 0
       THEN /\ csvs' = <<>>
            /\ log' = Append(log, StatusUpdate("No valid data rows found in Stores file, skipping CSV generation.", "success"))
       ELSE /\ csvs' = <<CsvFile("stores", storesData, STORES_COLS)>>
            /\ log' = Append(log, StatusUpdate("Stores processing complete.", "success"))
    /\ UNCHANGED <<workbook, detected, rawData, options, df_template, idx, itemMasterVars,
                   error, restVars>>

NextStores == Detect \/ StoresBegin \/ StoresRow \/ StoresFinish

SpecStores == InitStores /\ [][NextStores]_vars

-----------------------------------------------------------------------------
(* The extractors with side tables, called with each option switched off.  *)

ItemMasterOptions ==
    { <<>>,
      [barcodes |-> FALSE], [brands |-> FALSE], [dimensions |-> FALSE],
      [erpcategories |-> FALSE], [manufacturers |-> FALSE],
      [barcodes |-> TRUE, brands |-> TRUE, dimensions |-> TRUE,
       erpcategories |-> TRUE, manufacturers |-> TRUE] }

StoreItemsOptions == { <<>>, [suppliers |-> FALSE], [suppliers |-> TRUE] }

GateFamilies ==
    { Family(<<"UID*", "Product name*", "Barcode", "Manufacturer", "Brand", "Unit",
               "Segment Code">>,
             <<{Null, Str("X1")}, {Str("n1")}, {Null, Str("b1")}, {Str("M1")},
               {Str("Acme")}, {Str("kg")}, {Str("A")}>>,
             ItemMasterOptions),
      Family(<<"UID*", "Product name*", "Manufacturer UID", "Brand UID", "Barcode", "Unit",
               "Category level 1 UID">>,
             <<{Null, Str("X1")}, {Str("n1")}, {Str("M1")}, {Str("Acme")},
               {Null, Str("b1")}, {Str("kg")}, {Str("A")}>>,
             ItemMasterOptions),
      Family(<<"Store UID*", "Product UID*", "In assortment?", "Purchase price",
               "Supplier UID", "Supplier">>,
             <<{Null, Str("S1")}, {Str("P1")}, {Str("1")}, {Str("7")},
               {Null, Str("U1")}, {Str("n1")}>>,
             StoreItemsOptions) }

InitGate == InitExtract(GateFamilies)

NextGate ==
    \/ Detect
    \/ V1Begin \/ V1Row \/ V1Finish
    \/ V2Begin \/ V2Row \/ V2Finish
    \/ SIBegin \/ SIRow \/ SIFinish

SpecGate == InitGate /\ [][NextGate]_vars

-----------------------------------------------------------------------------
(* arrayToCsv on its own: the records and the column list of the call are  *)
(* drawn from bounded sets.                                                *)

MaxRecords == 2         \* records handed to arrayToCsv

\* field values: null, undefined, the empty string, plain text, a number,
\* text with a comma, with a double quote, with a line break
CsvValues ==
    {Null, Undefined, Str(""), Str("a"), Num("1"), Str("x,y"), Str("q\"r"), Str("l1\nl2")}

\* records over the fields a, b and c
CsvRecords ==
    [a : CsvValues]
    \cup [a : CsvValues, c : {Str("zz")}]
    \cup [a : {Str("a"), Str("x,y")}, b : CsvValues \ {Undefined}]

CsvColumnLists == { <<"a">>, <<"a", "b">>, <<"b", "a">> }

InitCsv ==
    /\ pc = "call"
    /\ \E n \in 0..MaxRecords : \E data \in [1..n -> CsvRecords] : \E columns \in CsvColumnLists :
          call = [data |-> data, columns |-> columns]
    /\ content = ""
    /\ workbook = <<>>
    /\ detected = [type |-> "UNKNOWN", sheetName |-> Null]
    /\ options = <<>>
    /\ NoExtractor
    /\ NoApp

\* content = arrayToCsv(data, columns)
CallArrayToCsv ==
    /\ pc = "call"
    /\ pc' = "returned"
    /\ content' = arrayToCsv(call.data, call.columns)
    /\ UNCHANGED <<workbook, detected, extractVars, log,
                   itemsData, suppliersMap, storesData, factsData, call, appVars>>

NextCsv == CallArrayToCsv

SpecCsv == InitCsv /\ [][NextCsv]_vars

-----------------------------------------------------------------------------
(* The App component: handleFilesChange classifies the selected files by   *)
(* running generateCsvsFromExcel on each, handleProcess runs it again on   *)
(* the files that are valid and collects the tables.  One call runs at a   *)
(* time: pc is the position of the call, phase the position of the handler.*)

MaxFiles == 2           \* files selected at once

OneSheet(rows) == <<[name |-> "Sheet1", rows |-> rows]>>

\* the workbooks a selected folder may hold, in listing order
BatchFiles ==
    << OneSheet(<< <<Str("Report"), Num("2024")>> >>),
       OneSheet(<< <<Str("Store UID*"), Str("Store name*"), Str("Region")>>,
                   <<Str("S1"), Str("Shop A"), Str("North")>> >>),
       OneSheet(<< <<Str("StoreID"), Str("ItemUID"), Str("Quantity")>>,
                   <<Str("S1"), Str("P1"), Num("3")>> >>),
       OneSheet(<< <<Str("Store UID*"), Str("Store name*"), Str("Region")>>,
                   <<Null, Str("Shop A"), Null>> >>),
       OneSheet(<< <<Str("UID*"), Str("Product name*"), Str("Barcode"), Str("Manufacturer"),
                     Str("Brand")>>,
                   <<Str("X1"), Str("n1"), Str("b1"), Str("M1"), Str("Acme")>> >>),
       OneSheet(<< <<Str("ItemUID"), Str("PriceList"), Str("Price")>>,
                   <<Str("P1"), Str("L1"), Num("9")>> >>),
       OneSheet(<< <<Str("Store UID*"), Str("Store name*"), Str("Region")>>,
                   <<Str("S2"), Str("Shop B"), Null>>,
                   <<Null, Str("Shop C"), Null>> >>),
       OneSheet(<< <<Str("UID*"), Str("Product name*"), Str("Manufacturer UID"),
                     Str("Brand UID"), Str("Barcode")>>,
                   <<Str("X1"), Str("n1"), Str("M1"), Str("Acme"), Str("b1")>> >>),
       OneSheet(<< <<Str("Store UID*"), Str("Product UID*"), Str("In assortment?"),
                     Str("Purchase price"), Str("Supplier UID"), Str("Supplier")>>,
                   <<Str("S1"), Str("P1"), Str("1"), Str("7"), Str("U1"), Str("n1")>> >>),
       OneSheet(<< <<Str("Product UID*"), Str("Store UID*"), Str("Date*")>>,
                   <<Str("P1"), Str("S1"), Null>> >>) >>

\* the files of BatchFiles at the positions S, in listing order
RECURSIVE FileList(_)
FileList(S) ==
    IF S = {} THEN <<>>
    ELSE <<BatchFiles[SetMin(S)]>> \o FileList(S \ {SetMin(S)})

\* the options the user may have chosen before pressing the button
BatchOptions == { <<>>, [barcodes |-> FALSE, suppliers |-> FALSE] }

\* file.name of the file at index i
FileName(i) == "file" \o ToString(i) \o ".xlsx"

FileInfo(type, status, message) == [type |-> type, status |-> status, error |-> message]

\* the status is written to the first file, whatever i
SetStatusOfFirst(infos, i, status) ==
    [k \in 1..Len(infos) |-> IF k = 1 THEN [infos[k] EXCEPT !.status = status] ELSE infos[k]]

\* the error is written to every file
SetErrorOfAll(infos, i, message) ==
    [k \in 1..Len(infos) |-> [infos[k] EXCEPT !.status = "error", !.error = message]]

\* prev.map((f, idx) => idx === i ? { ...f, status } : f)
SetStatus(infos, i, status) ==
    [k \in 1..Len(infos) |-> IF k = i + 1 THEN [infos[k] EXCEPT !.status = status] ELSE infos[k]]

\* prev.map((f, idx) => idx === i ? { ...f, status: 'error', error: message } : f)
SetError(infos, i, message) ==
    [k \in 1..Len(infos) |->
        IF k = i + 1 THEN [infos[k] EXCEPT !.status = "error", !.error = message] ELSE infos[k]]

\* info.type === 'UNKNOWN' || info.status === 'error'
Skipped(info) == info.type = "UNKNOWN" \/ info.status = "error"

\* fileInfos.some(f => f.type !== 'UNKNOWN' && f.status !== 'error')
hasValidFiles == \E k \in 1..Len(fileInfos) : ~Skipped(fileInfos[k])

LogEntry(message, status, i) == [message |-> message, status |-> status, fileIndex |-> i]

\* the events updateCallback received during the call for file i
CallEntries(events, i) ==
    [k \in 1..Len(events) |->
        LogEntry("[" \o FileName(i) \o "] " \o events[k].message, events[k].status, i)]

\* the entries keep the status they were logged with
RelabelNothing(updates, i, status) == updates

\* prev.map(log => (log.fileIndex === i && log.status === 'processing') ? { ...log, status } : log)
Relabel(updates, i, status) ==
    [k \in 1..Len(updates) |->
        IF updates[k].fileIndex = i /\ updates[k].status = "processing"
        THEN [updates[k] EXCEPT !.status = status] ELSE updates[k]]

InitBatch ==
    /\ pc = "idle"
    /\ \E S \in SUBSET (1..Len(BatchFiles)) :
          /\ Cardinality(S) \in 1..MaxFiles
          /\ files = FileList(S)
    /\ fileInfos = [k \in 1..Len(files) |-> FileInfo("UNKNOWN", "pending", "")]
    /\ csvOptions \in BatchOptions
    /\ processingState = "idle" /\ statusUpdates = <<>> /\ errorMessage = ""
    /\ phase = "detecting" /\ fileIndex = 0 /\ results = <<>>
    /\ allGeneratedCsvs = <<>> /\ hasProcessedAnyFile = FALSE /\ localErrorMessages = ""
    /\ zip = <<>> /\ zipUrl = Null
    /\ selections = <<>> /\ uncaught = ""
    /\ workbook = <<>>
    /\ detected = [type |-> "UNKNOWN", sheetName |-> Null]
    /\ options = <<>>
    /\ NoExtractor
    /\ NoCsv

\* the state a call of generateCsvsFromExcel starts from
CallStarts(opts) ==
    /\ pc' = "read"
    /\ workbook' = <<>>
    /\ detected' = [type |-> "UNKNOWN", sheetName |-> Null]
    /\ options' = opts
    /\ rawData' = <<>> /\ df_template' = <<>> /\ idx' = 0
    /\ masteritemsData' = <<>> /\ barcodesData' = <<>> /\ dimensionsData' = <<>>
    /\ seenUids' = <<>> /\ seenBrands' = <<>> /\ seenManufacturers' = <<>>
    /\ seenErpCategories' = <<>>
    /\ brandsMap' = <<>> /\ manufacturersMap' = <<>> /\ erpCategoriesMap' = <<>>
    /\ csvs' = <<>> /\ error' = "" /\ log' = <<>>
    /\ itemsData' = <<>> /\ suppliersMap' = <<>> /\ storesData' = <<>> /\ factsData' = <<>>

\* handleFilesChange: generateCsvsFromExcel(file, () => {}) for the next file
DetectionCall ==
    /\ phase = "detecting"
    /\ pc = "idle"
    /\ fileIndex < Len(files)
    /\ CallStarts(<<>>)
    /\ UNCHANGED <<csvVars, appVars>>

\* generateCsvsFromExcel: file.arrayBuffer() and XLSX.read give the workbook
GenerateRead ==
    /\ pc = "read"
    /\ pc' = "detect"
    /\ workbook' = files[fileIndex + 1]
    /\ UNCHANGED <<detected, extractVars, log, restVars>>

\* generateCsvsFromExcel: file.arrayBuffer() rejects
GenerateReadFails ==
    /\ pc = "read"
    /\ pc' = "failed"
    /\ log' = Append(log, StatusUpdate("Reading and analyzing Excel file...", "processing"))
    /\ error' = "The requested file could not be read."
    /\ UNCHANGED <<workbook, detected, rawData, options, df_template, idx, itemMasterVars,
                   csvs, restVars>>

\* generateCsvsFromExcel: the two throw statements after detectFileType
GenerateThrows ==
    /\ pc = "detected"
    /\ \/ /\ detected.type = "UNKNOWN" \/ ~Truthy(detected.sheetName)
          /\ error' = "Unknown file type. The file does not match any known templates."
       \/ /\ detected.type \in {"STOCK", "PRICE"} /\ Truthy(detected.sheetName)
          /\ error' = "Processing for \"" \o detected.type \o "\" files is not yet implemented."
    /\ pc' = "failed"
    /\ UNCHANGED <<workbook, detected, rawData, options, df_template, idx, itemMasterVars,
                   csvs, log, restVars>>

\* handleFilesChange: the value of one detection promise
DetectionSettles ==
    /\ phase = "detecting"
    /\ pc \in {"done", "failed"}
    /\ pc' = "idle"
    /\ results' = Append(results,
                         IF pc = "done"
                         THEN [index |-> fileIndex, type |-> detected.type, error |-> ""]
                         ELSE [index |-> fileIndex, type |-> "UNKNOWN", error |-> error])
    /\ fileIndex' = fileIndex + 1
    /\ UNCHANGED <<workbook, detected, extractVars, log,
                   itemsData, suppliersMap, storesData, factsData, csvVars,
                   files, fileInfos, csvOptions, processingState, statusUpdates, errorMessage,
                   phase, allGeneratedCsvs, hasProcessedAnyFile, localErrorMessages>>
    /\ UNCHANGED <<archiveVars, selectVars>>

\* the file list after results.forEach
ApplyResults(infos, rs) ==
    [k \in 1..Len(infos) |->
        LET hits == {j \in 1..Len(rs) : rs[j].index = k - 1}
        IN  IF hits = {} THEN infos[k]
            ELSE LET r == rs[SetMax(hits)]
                 IN  IF r.error # "" THEN FileInfo(r.type, "error", r.error)
                     ELSE [infos[k] EXCEPT !.type = r.type]]

\* handleFilesChange after await Promise.all(detectionPromises)
DetectionApplies ==
    /\ phase = "detecting"
    /\ pc = "idle"
    /\ fileIndex = Len(files)
    /\ fileInfos' = ApplyResults(fileInfos, results)
    /\ phase' = "ready"
    /\ fileIndex' = 0
    /\ UNCHANGED <<pc, workbook, detected, extractVars, log,
                   itemsData, suppliersMap, storesData, factsData, csvVars,
                   files, csvOptions, processingState, statusUpdates, errorMessage,
                   results, allGeneratedCsvs, hasProcessedAnyFile, localErrorMessages>>
    /\ UNCHANGED <<archiveVars, selectVars>>

\* handleProcess up to the loop; the button is disabled unless hasValidFiles
ProcessStarts ==
    /\ phase = "ready"
    /\ hasValidFiles /\ processingState # "processing"
    /\ Len(fileInfos) # 0
    /\ phase' = "processing"
    /\ processingState' = "processing"
    /\ statusUpdates' = <<>>
    /\ errorMessage' = ""
    /\ allGeneratedCsvs' = <<>> /\ hasProcessedAnyFile' = FALSE /\ localErrorMessages' = ""
    /\ fileIndex' = 0
    /\ zip' = <<>>
    /\ zipUrl' = Null
    /\ UNCHANGED <<pc, workbook, detected, extractVars, log,
                   itemsData, suppliersMap, storesData, factsData, csvVars,
                   files, fileInfos, csvOptions, results>>
    /\ UNCHANGED <<selectVars>>

\* handleProcess: the file at hand is invalid, continue
ProcessSkips ==
    /\ phase = "processing"
    /\ pc = "idle"
    /\ fileIndex < Len(fileInfos)
    /\ Skipped(fileInfos[fileIndex + 1])
    /\ statusUpdates' = Append(statusUpdates,
                               LogEntry("Skipping invalid file: " \o FileName(fileIndex),
                                        "error", fileIndex))
    /\ fileIndex' = fileIndex + 1
    /\ UNCHANGED <<pc, workbook, detected, extractVars, log,
                   itemsData, suppliersMap, storesData, factsData, csvVars,
                   files, fileInfos, csvOptions, processingState, errorMessage,
                   phase, results, allGeneratedCsvs, hasProcessedAnyFile, localErrorMessages>>
    /\ UNCHANGED <<archiveVars, selectVars>>

\* handleProcess: status 'processing', then generateCsvsFromExcel(info.file, updateCallback, csvOptions)
ProcessCall ==
    /\ phase = "processing"
    /\ pc = "idle"
    /\ fileIndex < Len(fileInfos)
    /\ ~Skipped(fileInfos[fileIndex + 1])
    /\ fileInfos' = SetStatus(fileInfos, fileIndex, "processing")
    /\ CallStarts(csvOptions)
    /\ UNCHANGED <<csvVars, files, csvOptions, processingState, statusUpdates, errorMessage,
                   phase, fileIndex, results,
                   allGeneratedCsvs, hasProcessedAnyFile, localErrorMessages>>
    /\ UNCHANGED <<archiveVars, selectVars>>

\* handleProcess: the call returned
ProcessReturns ==
    /\ phase = "processing"
    /\ pc = "done"
    /\ pc' = "idle"
    /\ allGeneratedCsvs' = allGeneratedCsvs \o csvs
    /\ hasProcessedAnyFile' = TRUE
    /\ fileInfos' = SetStatus(fileInfos, fileIndex, "success")
    /\ statusUpdates' = Relabel(statusUpdates \o CallEntries(log, fileIndex), fileIndex, "success")
    /\ fileIndex' = fileIndex + 1
    /\ UNCHANGED <<workbook, detected, extractVars, log,
                   itemsData, suppliersMap, storesData, factsData, csvVars,
                   files, csvOptions, processingState, errorMessage,
                   phase, results, localErrorMessages>>
    /\ UNCHANGED <<archiveVars, selectVars>>

\* handleProcess: the call threw
ProcessCatches ==
    /\ phase = "processing"
    /\ pc = "failed"
    /\ pc' = "idle"
    /\ localErrorMessages' =
           localErrorMessages \o "Error in " \o FileName(fileIndex) \o ": " \o error \o "\n"
    /\ statusUpdates' =
           Relabel(Append(statusUpdates \o CallEntries(log, fileIndex),
                          LogEntry("Failed to process " \o FileName(fileIndex) \o ": " \o error,
                                   "error", fileIndex)),
                   fileIndex, "error")
    /\ fileInfos' = SetError(fileInfos, fileIndex, error)
    /\ fileIndex' = fileIndex + 1
    /\ UNCHANGED <<workbook, detected, extractVars, log,
                   itemsData, suppliersMap, storesData, factsData, csvVars,
                   files, csvOptions, processingState, errorMessage,
                   phase, results, allGeneratedCsvs, hasProcessedAnyFile>>
    /\ UNCHANGED <<archiveVars, selectVars>>

\* a file failed regardless of what its messages say
NoneFailedAlways(messages) == TRUE

\* !localErrorMessages
NoneFailed(messages) == messages = ""

\* allGeneratedCsvs.forEach(csv => { zip.file(csv.name, csv.content); }):
\* JSZip keeps one entry per name, a later file of the same name replaces it;
\* so the archive holds, for each name in the order of its first file, the last
\* file added under it
ZipFiles(archive, generated) ==
    LET added == MapValues(archive) \o generated
        named(i) == {j \in 1..Len(added) : added[j].name = added[i].name}
        firsts == {i \in 1..Len(added) : i = SetMin(named(i))}
        nth(k) == CHOOSE i \in firsts : Cardinality({j \in firsts : j < i}) = k - 1
    IN  [k \in 1..Cardinality(firsts) |->
            [key |-> added[nth(k)].name, value |-> added[SetMax(named(nth(k)))]]]

\* handleProcess after the loop; zip.generateAsync may reject
ProcessFinishes ==
    /\ phase = "processing"
    /\ pc = "idle"
    /\ fileIndex = Len(fileInfos)
    /\ phase' = "finished"
    /\ IF Len(allGeneratedCsvs) > 0
       THEN /\ zip' = ZipFiles(zip, allGeneratedCsvs)
            /\ \/ /\ zipUrl' = Str("blob:" \o getTodayDateString)
                  /\ processingState' = "success"
                  /\ errorMessage' = Trim(localErrorMessages)
                  /\ statusUpdates' = Append(statusUpdates,
                         LogEntry("All valid files processed and bundled into a ZIP archive.",
                                  "success", -1))
               \/ /\ zipUrl' = zipUrl
                  /\ processingState' = "error"
                  /\ errorMessage' = (IF Trim(localErrorMessages) # ""
                                      THEN Trim(localErrorMessages) \o "\n" ELSE "")
                                         \o "The archive could not be generated."
                  /\ UNCHANGED statusUpdates
       ELSE IF hasProcessedAnyFile /\ NoneFailed(localErrorMessages)
       THEN /\ processingState' = "success"
            /\ errorMessage' = Trim(localErrorMessages)
            /\ statusUpdates' = Append(statusUpdates,
                   LogEntry("Processing complete. All valid files were processed but contained no data to export.",
                            "success", -1))
            /\ UNCHANGED archiveVars
       ELSE /\ processingState' = "error"
            /\ errorMessage' = IF localErrorMessages = ""
                               THEN "No valid files were processed successfully."
                               ELSE Trim(localErrorMessages)
            /\ UNCHANGED <<statusUpdates, archiveVars>>
    /\ UNCHANGED <<pc, workbook, detected, extractVars, log,
                   itemsData, suppliersMap, storesData, factsData, csvVars,
                   files, fileInfos, csvOptions, fileIndex, results,
                   allGeneratedCsvs, hasProcessedAnyFile, localErrorMessages>>
    /\ UNCHANGED selectVars

\* one call of generateCsvsFromExcel
Generate ==
    \/ GenerateRead \/ GenerateReadFails \/ Detect \/ GenerateThrows
    \/ StoresBegin \/ StoresRow \/ StoresFinish
    \/ SIBegin \/ SIRow \/ SIFinish
    \/ V1Begin \/ V1Row \/ V1Finish
    \/ V2Begin \/ V2Row \/ V2Finish
    \/ FactsBegin \/ FactsRow \/ FactsFinish

NextBatch ==
    \/ DetectionCall \/ DetectionSettles \/ DetectionApplies
    \/ ProcessStarts \/ ProcessSkips \/ ProcessCall \/ ProcessReturns \/ ProcessCatches
    \/ ProcessFinishes
    \/ Generate

SpecBatch == InitBatch /\ [][NextBatch]_vars

\* a step of the handlers, once called, or of generateCsvsFromExcel outside the
\* extractors; pressing the button (ProcessStarts) is left to the user
ControlStep ==
    \/ DetectionCall \/ DetectionSettles \/ DetectionApplies
    \/ ProcessSkips \/ ProcessCall \/ ProcessReturns \/ ProcessCatches
    \/ ProcessFinishes
    \/ GenerateRead \/ GenerateReadFails \/ GenerateThrows

\* a step of detectFileType or of an extractor, by its position alone: the scan,
\* the header search, one turn of the row loop, the return
ExtractorStep ==
    \/ pc = "detect" /\ pc' = "detected" /\ idx' = idx
    \/ /\ pc = "detected"
       /\ detected.type \in {"STORE", "STORE_ITEMS", "FACTS", "ITEM_MASTER", "ITEM_MASTER_V2"}
       /\ \/ pc' = "rows" /\ idx' = 1
          \/ pc' = "failed" /\ idx' = idx
    \/ pc = "rows" /\ idx <= Len(df_template) /\ idx' = idx + 1 /\ pc' = pc
    \/ pc = "rows" /\ idx > Len(df_template) /\ pc' = "done" /\ idx' = idx

\* every continuation that is ready is run by the event loop, and the
\* synchronous code of a call runs to its end
SpecBatchFair == SpecBatch /\ WF_vars(ControlStep) /\ WF_<<pc, idx>>(ExtractorStep)

-----------------------------------------------------------------------------
(* Every extractor on sheets whose identity columns hold blank, white and  *)
(* repeated values, with every option on.                                  *)

TableFamilies ==
    { Family(<<"UID*", "Product name*", "Barcode", "Manufacturer", "Brand">>,
             <<{Str(" "), Str("X1")}, {Str("n1")}, {Str("b1")}, {Null, Str("M1")},
               {Str(" "), Str("Acme")}>>,
             NoOptions),
      Family(<<"UID*", "Product name*", "Barcode", "Manufacturer", "Unit", "Main Unit UID",
               "Class Code", "Brick Code">>,
             <<{Str("X1")}, {Str("n1")}, {Null}, {Null}, {Null, Str("kg")},
               {Str(" "), Str("U1")}, {Str("A")}, {Null, Str("K")}>>,
             NoOptions),
      Family(<<"UID*", "Product name*", "Manufacturer UID", "Manufacturer", "Brand UID", "Brand">>,
             <<{Null, Str("X1")}, {Str("n1")}, {Str(" "), Str("M1")}, {Null, Str("Maker")},
               {Null}, {Null, Str("Acme")}>>,
             NoOptions),
      Family(<<"UID*", "Product name*", "Manufacturer UID", "Barcode", "Unit", "Main unit UID",
               "Category level 1 UID", "Category level 2">>,
             <<{Str(" "), Str("X1")}, {Str("n1")}, {Null}, {Str("b1")}, {Null, Str("kg")},
               {Null}, {Null, Str("A")}, {Null, Str("c")}>>,
             NoOptions),
      Family(<<"Store UID*", "Product UID*", "In assortment?", "Purchase price",
               "Supplier UID", "Supplier">>,
             <<{Null, Str("S1")}, {Str(" "), Str("P1")}, {Str("1")}, {Str("7")},
               {Null, Str(" "), Str("U1")}, {Str("n1")}>>,
             NoOptions),
      Family(<<"Product UID*", "Store UID*", "Date*">>,
             <<{Null, Str("P1")}, {Str(" "), Str("S1")}, {Null, Str("2023-03-15")}>>,
             NoOptions),
      Family(<<"Store UID*", "Store name*">>,
             <<{Null, Str(" "), Str(""), Str("S1")}, {Null, Str("Shop A")}>>,
             NoOptions) }

InitTables == InitExtract(TableFamilies)

NextTables ==
    \/ Detect
    \/ V1Begin \/ V1Row \/ V1Finish
    \/ V2Begin \/ V2Row \/ V2Finish
    \/ SIBegin \/ SIRow \/ SIFinish
    \/ FactsBegin \/ FactsRow \/ FactsFinish
    \/ StoresBegin \/ StoresRow \/ StoresFinish

SpecTables == InitTables /\ [][NextTables]_vars

-----------------------------------------------------------------------------
(* The extractors called on their own: the sheet may hold rows above the   *)
(* header row, hold the header row below the rows detection scans, or hold *)
(* no header row at all.                                                   *)

ExtractedTypes == {"STORE", "STORE_ITEMS", "FACTS", "ITEM_MASTER", "ITEM_MASTER_V2"}

\* a row whose cells are the keywords of the type
KeywordRow(type) ==
    [k \in 1..Len(FILE_TYPE_DEFINITIONS(type)) |-> Str(FILE_TYPE_DEFINITIONS(type)[k])]

\* a row with one cell of text around the last keyword of the type
TitleRow(type) ==
    LET keywords == FILE_TYPE_DEFINITIONS(type)
    IN  <<Str("Template (" \o keywords[Len(keywords)] \o ")")>>

\* a data row: the same text under every keyword
ValueRow(type) == [k \in 1..Len(FILE_TYPE_DEFINITIONS(type)) |-> Str("2023-03-15")]

\* the rows above the header row
RowsAbove(type) ==
    { <<>>, <<BlankRow>>, <<<<Str("Export"), Num("2024")>>>>, <<TitleRow(type)>>,
      Blanks(ScanLimit) }

HeaderSheets(type) ==
    { above \o header \o data :
        above \in RowsAbove(type),
        header \in { <<>>, <<KeywordRow(type)>> },
        data \in UNION { [1..n -> {BlankRow, ValueRow(type)}] : n \in 0..MaxRows } }

InitHeader ==
    /\ pc = "detected"
    /\ \E type \in ExtractedTypes : \E rows \in HeaderSheets(type) :
          /\ workbook = <<[name |-> "Sheet1", rows |-> rows]>>
          /\ detected = [type |-> type, sheetName |-> Str("Sheet1")]
    /\ NoExtract

NextHeader ==
    \/ V1Begin \/ V1Row \/ V1Finish
    \/ V2Begin \/ V2Row \/ V2Finish
    \/ SIBegin \/ SIRow \/ SIFinish
    \/ FactsBegin \/ FactsRow \/ FactsFinish
    \/ StoresBegin \/ StoresRow \/ StoresFinish

SpecHeader == InitHeader /\ [][NextHeader]_vars

-----------------------------------------------------------------------------
(* processItemMasterFile on sheets with category columns: codes repeat     *)
(* under other parents, with other descriptions, at other levels and on    *)
(* rows without a product id.                                              *)

LevelFamilies ==
    { Family(<<"UID*", "Product name*", "Barcode", "Manufacturer",
               "Segment Code", "Family Code", "Family Description">>,
             <<{Null, Str("X1")}, {Str("n1")}, {Null}, {Null},
               {Str("S"), Str("T")}, {Str("A"), Str("S")}, {Str("d1"), Str("d2")}>>,
             NoOptions),
      Family(<<"UID*", "Product name*", "Barcode", "Manufacturer",
               "Segment Code", "Family Code", "Class Code", "Brick Code", "Brick Description">>,
             <<{Str("X1")}, {Str("n1")}, {Null}, {Null},
               {Str("S")}, {Null, Str("A")}, {Str("C"), Str("A")}, {Null, Str("K")},
               {Str("d1")}>>,
             NoOptions) }

InitLevels == InitExtract(LevelFamilies)

NextLevels == Detect \/ V1Begin \/ V1Row \/ V1Finish

SpecLevels == InitLevels /\ [][NextLevels]_vars

-----------------------------------------------------------------------------
(* generateCsvsFromExcel on the same sheets: detection first, then the     *)
(* extractor of the detected type on the sheet detection chose.            *)

NotesSheet == [name |-> "Notes", rows |-> <<<<Str("Export"), Num("2024")>>>>]

InitFound ==
    /\ pc = "detect"
    /\ \E type \in ExtractedTypes : \E rows \in HeaderSheets(type) :
          workbook \in { <<[name |-> "Sheet1", rows |-> rows]>>,
                         <<NotesSheet, [name |-> "Sheet1", rows |-> rows]>> }
    /\ detected = [type |-> "UNKNOWN", sheetName |-> Null]
    /\ NoExtract

NextFound ==
    \/ Detect \/ GenerateThrows
    \/ V1Begin \/ V1Row \/ V1Finish
    \/ V2Begin \/ V2Row \/ V2Finish
    \/ SIBegin \/ SIRow \/ SIFinish
    \/ FactsBegin \/ FactsRow \/ FactsFinish
    \/ StoresBegin \/ StoresRow \/ StoresFinish

SpecFound == InitFound /\ [][NextFound]_vars

-----------------------------------------------------------------------------
(* processItemMasterV2File on sheets with two category levels, each with   *)
(* its UID and its name column: ids repeat at the other level and names    *)
(* come on a later row.                                                    *)

CategoryFamilies ==
    { Family(<<"UID*", "Product name*", "Manufacturer UID",
               "Category level 1 UID", "Category level 1",
               "Category level 2 UID", "Category level 2">>,
             <<{Str("X1")}, {Str("n1")}, {Null},
               {Str("A"), Str("B")}, {Null, Str("a")},
               {Null, Str("A"), Str("B")}, {Null, Str("b")}>>,
             NoOptions) }

InitCategories == InitExtract(CategoryFamilies)

NextCategories == Detect \/ V2Begin \/ V2Row \/ V2Finish

SpecCategories == InitCategories /\ [][NextCategories]_vars

-----------------------------------------------------------------------------
(* Selecting folders: every call of handleFilesChange starts one detection *)
(* per file, all running at once, and applies their results when the last  *)
(* one has settled.  The folder input and the Reset button are never       *)
(* disabled, so calls overlap.                                             *)

MaxSelections == 2      \* folders selected, one after the other

\* the workbooks of BatchFiles the folders are made of: an unknown sheet, a
\* Stores sheet, an Item-Master v1 sheet
SelectableFiles == {1, 2, 5}

Folders == { FileList(S) : S \in {T \in SUBSET SelectableFiles : Cardinality(T) \in 1..MaxFiles} }

Pending == [index |-> -1, type |-> "UNKNOWN", error |-> ""]

\* the header search of the extractor of the type finds no row
HeaderError(wb, d) ==
    LET grid == SheetToJsonFormatted(SheetRows(wb, d.sheetName))
    IN  IF FindHeaderRow(grid, FILE_TYPE_DEFINITIONS(d.type)) # -1 THEN ""
        ELSE CASE d.type = "STORE" -> "Could not find a valid header row in the Stores sheet."
               [] d.type = "STORE_ITEMS" -> "Could not find a valid header row in the Items sheet."
               [] d.type = "FACTS" -> "Could not find a valid header row in the Facts sheet."
               [] d.type = "ITEM_MASTER" -> "Could not find header row in Masteritems file."
               [] d.type = "ITEM_MASTER_V2" -> "Could not find header row in the new Masteritems file."

\* what a detection promise resolves to once the file has been read:
\* { index, type: detectedType } or { index, type: 'UNKNOWN', error }
DetectionResult(wb, index) ==
    LET d == detectFileType(wb)
        message ==
            IF d.type = "UNKNOWN" \/ ~Truthy(d.sheetName)
            THEN "Unknown file type. The file does not match any known templates."
            ELSE IF d.type \in {"STOCK", "PRICE"}
            THEN "Processing for \"" \o d.type \o "\" files is not yet implemented."
            ELSE HeaderError(wb, d)
    IN  [index |-> index, type |-> IF message = "" THEN d.type ELSE "UNKNOWN", error |-> message]

\* what it resolves to when file.arrayBuffer() rejects
DetectionReadFailure(index) ==
    [index |-> index, type |-> "UNKNOWN", error |-> "The requested file could not be read."]

InitSelect ==
    /\ pc = "idle"
    /\ workbook = <<>>
    /\ detected = [type |-> "UNKNOWN", sheetName |-> Null]
    /\ NoExtract

\* resetState()
ResetState ==
    /\ processingState' = "idle"
    /\ statusUpdates' = <<>>
    /\ errorMessage' = ""
    /\ zipUrl' = Null
    /\ csvOptions' = <<>>

\* handleFilesChange up to await Promise.all(detectionPromises)
SelectFolder ==
    /\ uncaught = ""
    /\ Len(selections) < MaxSelections
    /\ \E folder \in Folders :
          /\ files' = folder
          /\ fileInfos' = [k \in 1..Len(folder) |-> FileInfo("UNKNOWN", "pending", "")]
          /\ selections' = Append(selections,
                                  [validFiles |-> folder,
                                   results |-> [k \in 1..Len(folder) |-> Pending],
                                   applied |-> FALSE])
    /\ ResetState
    /\ UNCHANGED <<pc, workbook, detected, extractVars, log,
                   itemsData, suppliersMap, storesData, factsData, csvVars,
                   phase, fileIndex, results, allGeneratedCsvs, hasProcessedAnyFile,
                   localErrorMessages, zip, uncaught>>

\* handleFilesChange on a folder without any .xlsx or .xls file
SelectEmptyFolder ==
    /\ uncaught = ""
    /\ files' = <<>>
    /\ fileInfos' = <<>>
    /\ processingState' = "error"
    /\ statusUpdates' = <<>>
    /\ errorMessage' = "No valid Excel files (.xlsx, .xls) found in the selected directory."
    /\ zipUrl' = Null
    /\ csvOptions' = <<>>
    /\ UNCHANGED <<pc, workbook, detected, extractVars, log,
                   itemsData, suppliersMap, storesData, factsData, csvVars,
                   phase, fileIndex, results, allGeneratedCsvs, hasProcessedAnyFile,
                   localErrorMessages, zip, selectVars>>

\* handleReset
HandleReset ==
    /\ uncaught = ""
    /\ files' = <<>>
    /\ fileInfos' = <<>>
    /\ ResetState
    /\ UNCHANGED <<pc, workbook, detected, extractVars, log,
                   itemsData, suppliersMap, storesData, factsData, csvVars,
                   phase, fileIndex, results, allGeneratedCsvs, hasProcessedAnyFile,
                   localErrorMessages, zip, selectVars>>

\* one detection promise of one call settles; the promises settle in any order
DetectionCompletes ==
    /\ uncaught = ""
    /\ \E s \in 1..Len(selections) : \E k \in 1..Len(selections[s].validFiles) :
          /\ selections[s].results[k] = Pending
          /\ \E result \in { DetectionResult(selections[s].validFiles[k], k - 1),
                             DetectionReadFailure(k - 1) } :
                selections' = [selections EXCEPT ![s].results[k] = result]
    /\ UNCHANGED <<pc, workbook, detected, extractVars, log,
                   itemsData, suppliersMap, storesData, factsData, csvVars,
                   files, fileInfos, csvOptions, processingState, statusUpdates, errorMessage,
                   phase, fileIndex, results, allGeneratedCsvs, hasProcessedAnyFile,
                   localErrorMessages, archiveVars, uncaught>>

\* the results of a call whose index lies inside the list
InRange(infos, rs) ==
    LET RECURSIVE Keep(_)
        Keep(j) == IF j > Len(rs) THEN <<>>
                   ELSE (IF rs[j].index < Len(infos) THEN <<rs[j]>> ELSE <<>>) \o Keep(j + 1)
    IN  Keep(1)

\* handleFilesChange after await Promise.all(detectionPromises):
\* setFileInfos(currentInfos => { ... newInfos[result.index].type = result.type ... }).
\* The updater takes the list as it is now; newInfos[result.index] is undefined
\* past its end and the assignment throws.
DetectionsApply ==
    /\ uncaught = ""
    /\ \E s \in 1..Len(selections) :
          /\ ~selections[s].applied
          /\ \A k \in 1..Len(selections[s].results) : selections[s].results[k] # Pending
          /\ selections' = [selections EXCEPT ![s].applied = TRUE]
          /\ LET rs == selections[s].results
             IN  IF \E j \in 1..Len(rs) : rs[j].index >= Len(fileInfos)
                 THEN /\ uncaught' = "TypeError: Cannot set properties of undefined (setting 'type')"
                      /\ fileInfos' = ApplyResults(fileInfos, InRange(fileInfos, rs))
                 ELSE /\ fileInfos' = ApplyResults(fileInfos, rs)
                      /\ UNCHANGED uncaught
    /\ UNCHANGED <<pc, workbook, detected, extractVars, log,
                   itemsData, suppliersMap, storesData, factsData, csvVars,
                   files, csvOptions, processingState, statusUpdates, errorMessage,
                   phase, fileIndex, results, allGeneratedCsvs, hasProcessedAnyFile,
                   localErrorMessages, archiveVars>>

NextSelect ==
    \/ SelectFolder \/ SelectEmptyFolder \/ HandleReset
    \/ DetectionCompletes \/ DetectionsApply

SpecSelect == InitSelect /\ [][NextSelect]_vars

-----------------------------------------------------------------------------
(* Claims about detection.                                                 *)

\* some cell of the row holds text that contains the keyword
CellHas(row, kw) ==
    \E c \in 1..Len(row) : ~IsNullish(row[c]) /\ Includes(JsString(row[c]), kw)

\* the row carries the whole fingerprint of the type
RowHasAll(row, type) ==
    \A k \in 1..Len(FILE_TYPE_DEFINITIONS(type)) : CellHas(row, FILE_TYPE_DEFINITIONS(type)[k])

\* a fingerprint row of the type lies among the first 20 rows of the sheet
SheetHas(rows, type) ==
    \E i \in 1..Len(rows) : i <= 20 /\ RowHasAll(rows[i], type)

\* C1: whenever some row among the first 20 rows of some sheet contains every
\* ITEM_MASTER_V2 keyword, detectFileType returns ITEM_MASTER_V2, whatever else
\* the same row, another row or an earlier sheet satisfies.
C1_Precedence ==
    (pc = "detected" /\ \E s \in 1..Len(workbook) : SheetHas(workbook[s].rows, "ITEM_MASTER_V2"))
        => detected.type = "ITEM_MASTER_V2"

C1_Witness ==
    /\ pc = "detected"
    /\ detected.type = "ITEM_MASTER_V2"
    /\ \E s1, s2 \in 1..Len(workbook) :
          /\ s1 < s2
          /\ SheetHas(workbook[s1].rows, "ITEM_MASTER")
          /\ ~SheetHas(workbook[s1].rows, "ITEM_MASTER_V2")
          /\ SheetHas(workbook[s2].rows, "ITEM_MASTER_V2")
          /\ SheetHas(workbook[s2].rows, "ITEM_MASTER")

\* C2: detectFileType returns the first type, in the order ITEM_MASTER_V2,
\* ITEM_MASTER, STORE_ITEMS, FACTS, STORE, STOCK, PRICE, that has a fingerprint row
\* among the first 20 rows of some sheet, with the first such sheet; it returns
\* {UNKNOWN, null} exactly when no type has one (a row at index 20 or later never
\* counts).
C2_FirstMatchWins ==
    pc = "detected" =>
        LET order == <<"ITEM_MASTER_V2", "ITEM_MASTER", "STORE_ITEMS", "FACTS",
                       "STORE", "STOCK", "PRICE">>
            hits(t) == {s \in 1..Len(workbook) : SheetHas(workbook[s].rows, order[t])}
            types == {t \in 1..Len(order) : hits(t) # {}}
        IN  IF types = {}
            THEN detected = [type |-> "UNKNOWN", sheetName |-> Null]
            ELSE /\ detected.type = order[SetMin(types)]
                 /\ detected.sheetName = Str(workbook[SetMin(hits(SetMin(types)))].name)

\* a fingerprint row sits at index 20 of the only sheet that has one, and a later
\* sheet decides the result
C2_Witness ==
    /\ pc = "detected"
    /\ Len(workbook) = 2
    /\ Len(workbook[1].rows) = 21
    /\ RowHasAll(workbook[1].rows[21], "ITEM_MASTER_V2")
    /\ detected = [type |-> "FACTS", sheetName |-> Str("Sheet2")]

-----------------------------------------------------------------------------
(* Claims about the Item-Master extractors, stated over the input sheet.   *)

TheSheet == workbook[1].rows

\* the text of a cell as the extractors see it: trimmed, '' for an absent cell
CellText(row, c) ==
    IF c > Len(row) \/ IsNullish(row[c]) THEN "" ELSE Trim(JsString(row[c]))

\* the row of the sheet that holds the column labels
HeaderAt == SetMin({i \in 1..Len(TheSheet) :
                      \E c \in 1..Len(TheSheet[i]) :
                          CellText(TheSheet[i], c) \in {"UID*", "Store UID*", "Product UID*"}})

\* the sheet read as a table: the position of the label row, the labels, and the
\* texts of the data rows (the rows after the label row) under each column
Input ==
    LET at == HeaderAt
        width == Len(TheSheet[at])
    IN  [at |-> at,
         labels |-> [c \in 1..width |-> CellText(TheSheet[at], c)],
         rows |-> [k \in 1..(Len(TheSheet) - at) |->
                      [c \in 1..width |-> CellText(TheSheet[at + k], c)]]]

\* the column labelled so (0 if there is none)
ColumnOf(d, label) ==
    LET cs == {c \in 1..Len(d.labels) : d.labels[c] = label}
    IN  IF cs = {} THEN 0 ELSE SetMax(cs)

NumDataRows(d) == Len(d.rows)

\* the untrimmed cell a data row holds under a label
RawCell(d, k, label) == TheSheet[d.at + k][ColumnOf(d, label)]

\* the text a data row holds under a label ('' if blank or no such column)
Field(d, k, label) ==
    IF ColumnOf(d, label) = 0 THEN "" ELSE d.rows[k][ColumnOf(d, label)]

\* the indices k..n that satisfy P, in order
RECURSIVE Select(_, _, _)
Select(P(_), k, n) ==
    IF k > n THEN <<>>
    ELSE (IF P(k) THEN <<k>> ELSE <<>>) \o Select(P, k + 1, n)

\* the data rows that carry an item id, in input order
HasUid(d, k) == Field(d, k, "UID*") # ""
RowsWithUid(d) == LET has(k) == HasUid(d, k) IN Select(has, 1, NumDataRows(d))

\* the records of an emitted table (none if the table was not emitted)
Table(name) ==
    LET at == {i \in 1..Len(csvs) : csvs[i].name = name \o "_" \o getTodayDateString \o ".csv"}
    IN  IF at = {} THEN <<>> ELSE csvs[CHOOSE i \in at : TRUE].data

V1Done == pc = "done" /\ detected.type = "ITEM_MASTER"

\* C3: the masteritems table of the v1 extractor holds exactly one record per
\* distinct trimmed non-blank 'UID*' of the data rows, and that record is the one
\* built from the first row carrying the id.
C3_V1Dedup ==
    V1Done =>
        LET d == Input
            items == Table("masteritems")
            ids == {Field(d, k, "UID*") : k \in 1..NumDataRows(d)} \ {""}
            first(id) == SetMin({k \in 1..NumDataRows(d) : Field(d, k, "UID*") = id})
        IN  /\ Len(items) = Cardinality(ids)
            /\ {items[i].item_uid : i \in 1..Len(items)} = {Str(id) : id \in ids}
            /\ \A i \in 1..Len(items) :
                  /\ items[i].name = Str(Field(d, first(items[i].item_uid.v), "Product name*"))
                  /\ items[i] = V1ItemRecord(
                         RowObject(HeaderLabels(TheSheet[d.at]),
                                   TheSheet[d.at + first(items[i].item_uid.v)]),
                         items[i].item_uid.v)

\* two rows carry the same id, one of them with white space around it, and
\* different names
C3_Witness ==
    LET d == Input
    IN  /\ V1Done
        /\ NumDataRows(d) = 2
        /\ RawCell(d, 1, "UID*") # RawCell(d, 2, "UID*")
        /\ Field(d, 1, "UID*") = Field(d, 2, "UID*")
        /\ Field(d, 1, "Product name*") # Field(d, 2, "Product name*")
        /\ Len(Table("masteritems")) = 1

\* C4: v1 side records are not deduplicated by item id: every data row with a
\* non-blank 'UID*' and a non-empty Barcode contributes one barcodes record, and
\* every such row with a non-empty Unit one dimensions record, in input order.
C4_V1SideRecords ==
    V1Done =>
        LET d == Input
            hasBarcode(k) == HasUid(d, k) /\ Field(d, k, "Barcode") # ""
            hasUnit(k) == HasUid(d, k) /\ Field(d, k, "Unit") # ""
            bs == Select(hasBarcode, 1, NumDataRows(d))
            us == Select(hasUnit, 1, NumDataRows(d))
        IN  /\ Len(barcodesData) = Len(bs)
            /\ \A i \in 1..Len(bs) :
                  /\ barcodesData[i].item_uid = Str(Field(d, bs[i], "UID*"))
                  /\ barcodesData[i].barcode = Str(Field(d, bs[i], "Barcode"))
            /\ Len(dimensionsData) = Len(us)
            /\ \A i \in 1..Len(us) :
                  /\ dimensionsData[i].item_uid = Str(Field(d, us[i], "UID*"))
                  /\ dimensionsData[i].unit_name = Str(Field(d, us[i], "Unit"))
            /\ Table("barcodes") = barcodesData
            /\ Table("dimensions") = dimensionsData

\* two rows share UID X1 and carry distinct barcodes: one masteritems row, two
\* barcodes rows
C4_Witness ==
    LET d == Input
    IN  /\ V1Done
        /\ NumDataRows(d) = 2
        /\ Field(d, 1, "UID*") = "X1" /\ Field(d, 2, "UID*") = "X1"
        /\ Field(d, 1, "Barcode") # "" /\ Field(d, 2, "Barcode") # ""
        /\ Field(d, 1, "Barcode") # Field(d, 2, "Barcode")
        /\ Field(d, 1, "Unit") # ""
        /\ Len(Table("masteritems")) = 1
        /\ Len(Table("barcodes")) = 2
        /\ Len(Table("dimensions")) >= 1

V2Done == pc = "done" /\ detected.type = "ITEM_MASTER_V2"

\* C5: the v2 extractor does no id-based dedup: masteritems holds one record per
\* data row whose 'UID*' is non-blank, in input order, so k rows with the same id
\* yield k records.
C5_V2NoDedup ==
    V2Done =>
        LET d == Input
            kept == RowsWithUid(d)
            items == Table("masteritems")
        IN  /\ Len(items) = Len(kept)
            /\ \A j \in 1..Len(items) : items[j].item_uid = Str(Field(d, kept[j], "UID*"))

C5_Witness ==
    LET d == Input
    IN  /\ V2Done
        /\ NumDataRows(d) = 2
        /\ Field(d, 1, "UID*") # ""
        /\ Field(d, 1, "UID*") = Field(d, 2, "UID*")
        /\ Len(Table("masteritems")) = 2

\* the brands entries whose brand_uid stringifies to the value
BrandEntries(value) ==
    {i \in 1..Len(brandsMap) : JsString(brandsMap[i].value.brand_uid) = value}

BrandByName(d, k) == Field(d, k, "Brand UID") = "" /\ Field(d, k, "Brand") # ""

\* C6: v2 brand fallback: for every processed row whose 'Brand UID' is blank and
\* whose 'Brand' is non-blank, the item's brand_uid is the name, and the brands
\* table holds exactly one entry whose brand_uid stringifies to that name.
C6_V2BrandFallback ==
    (detected.type = "ITEM_MASTER_V2" /\ masteritemsData # <<>>) =>
        LET d == Input
            kept == RowsWithUid(d)
        IN  \A j \in 1..Len(masteritemsData) :
                BrandByName(d, kept[j]) =>
                    /\ masteritemsData[j].brand_uid = Str(Field(d, kept[j], "Brand"))
                    /\ Cardinality(BrandEntries(Field(d, kept[j], "Brand"))) = 1

\* a row names its brand by UID, a later row names the same value in 'Brand' only
C6_Witness ==
    LET d == Input
        kept == RowsWithUid(d)
    IN  /\ V2Done
        /\ Len(masteritemsData) = 2
        /\ ~BrandByName(d, kept[1])
        /\ BrandByName(d, kept[2])
        /\ Field(d, kept[1], "Brand UID") = Field(d, kept[2], "Brand")
        /\ Len(brandsMap) = 1

\* a category level of a data row is populated if its UID or its name is non-blank
Populated(d, k, level) ==
    Field(d, k, CatUidCol(level)) # "" \/ Field(d, k, CatNameCol(level)) # ""

\* the resolved id of a populated level: the UID if non-blank, else the name
Resolved(d, k, level) ==
    IF Field(d, k, CatUidCol(level)) # "" THEN Field(d, k, CatUidCol(level))
    ELSE Field(d, k, CatNameCol(level))

PopulatedLevels(d, k) == {l \in 1..6 : Populated(d, k, l)}

\* C7: the item's erp_category_uid is the resolved id of the deepest populated
\* level among levels 6..1 (the UID if non-blank, else the name), and null only if
\* no level is populated.
C7_V2ItemCategory ==
    (detected.type = "ITEM_MASTER_V2" /\ masteritemsData # <<>>) =>
        LET d == Input
            kept == RowsWithUid(d)
        IN  \A j \in 1..Len(masteritemsData) :
                LET levels == PopulatedLevels(d, kept[j])
                IN  masteritemsData[j].erp_category_uid =
                        IF levels = {} THEN Null
                        ELSE Str(Resolved(d, kept[j], SetMax(levels)))

\* the node of the v2 category table with the id
CategoryNode(id) == MapGet(erpCategoriesMap, id)

\* every place of the input where a populated level resolves to the id
Occurrences(d, id) ==
    {<<k, l>> \in (1..NumDataRows(d)) \X (1..6) :
        HasUid(d, k) /\ Populated(d, k, l) /\ Resolved(d, k, l) = id}

\* C8 as stated: for any row that populates only levels 2 and 4, the level-4 node
\* of the table has the row's level-2 id as its parent.
C8_V2ChainAnyRow ==
    V2Done =>
        LET d == Input
        IN  \A k \in 1..NumDataRows(d) :
                (HasUid(d, k) /\ PopulatedLevels(d, k) = {2, 4}) =>
                    CategoryNode(Resolved(d, k, 4)).parent_category_uid = Str(Resolved(d, k, 2))

\* C8 amended: for any row that populates only levels 2 and 4 and whose level-4
\* id is resolved nowhere else in the input (not by level 2 of the row, not by
\* any level of another row), the level-4 node has the row's level-2 id as parent.
C8_V2ChainSoleOccurrence ==
    V2Done =>
        LET d == Input
        IN  \A k \in 1..NumDataRows(d) :
                (/\ HasUid(d, k)
                 /\ PopulatedLevels(d, k) = {2, 4}
                 /\ Occurrences(d, Resolved(d, k, 4)) = {<<k, 4>>}) =>
                    CategoryNode(Resolved(d, k, 4)).parent_category_uid = Str(Resolved(d, k, 2))

C8_Witness ==
    LET d == Input
    IN  /\ V2Done
        /\ NumDataRows(d) = 2
        /\ HasUid(d, 1) /\ HasUid(d, 2)
        /\ PopulatedLevels(d, 1) # {} /\ PopulatedLevels(d, 1) # {2, 4}
        /\ PopulatedLevels(d, 2) = {2, 4}
        /\ Occurrences(d, Resolved(d, 2, 4)) = {<<2, 4>>}
        /\ Len(erpCategoriesMap) = 2
        /\ CategoryNode(Resolved(d, 2, 4)).parent_category_uid = Str(Resolved(d, 2, 2))

\* C9: once a category node is registered its parent_category_uid never changes;
\* a later row may only replace a null name by a supplied one.
C9_V2ParentNeverChanges ==
    [][\A i \in 1..Len(erpCategoriesMap) :
           /\ MapHas(erpCategoriesMap', erpCategoriesMap[i].key)
           /\ LET old == erpCategoriesMap[i].value
                  new == MapGet(erpCategoriesMap', erpCategoriesMap[i].key)
              IN  /\ new.parent_category_uid = old.parent_category_uid
                  /\ new.erp_category_uid = old.erp_category_uid
                  /\ new.name # old.name => old.name = Null]_vars

Blank(x) == IsNullish(x) \/ Trim(JsString(x)) = ""

IsForest(nodes) ==
    \A i \in 1..Len(nodes) :
        \/ Blank(nodes[i].parent_category_uid)
        \/ \E j \in 1..Len(nodes) : nodes[j].erp_category_uid = nodes[i].parent_category_uid

\* C10: in the category table of either Item-Master extractor every record's
\* parent_category_uid is null/blank or the erp_category_uid of a record of the
\* same table.
C10_CategoryForest ==
    /\ IsForest(MapValues(seenErpCategories))
    /\ IsForest(MapValues(erpCategoriesMap))
    /\ IsForest(Table("erpcategories"))

C10_Witness ==
    /\ pc = "done"
    /\ Len(Table("erpcategories")) = 2
    /\ \E i \in 1..2 : ~Blank(Table("erpcategories")[i].parent_category_uid)

-----------------------------------------------------------------------------
(* Claims about the Store-Items extractor.                                 *)

SIStarted == detected.type = "STORE_ITEMS" /\ pc \in {"rows", "done"}
SIDone == detected.type = "STORE_ITEMS" /\ pc = "done"

\* the data rows with both a store id and an item id, in input order
Qualifying(d) ==
    LET both(k) == Field(d, k, "Store UID*") # "" /\ Field(d, k, "Product UID*") # ""
    IN  Select(both, 1, NumDataRows(d))

\* the price a cell text stands for, a comma read as the decimal separator;
\* null for an empty, unparseable or zero cell
PriceOf(text) ==
    CASE text = "" -> Null
      [] text = "abc" -> Null
      [] text = "0,00" -> Null
      [] text = "12,50" -> Num("12.5")
      [] text = "-3,5" -> Num("-3.5")
      [] text = "7" -> Num("7")

\* the flag a cell text stands for; 0 for an empty or unparseable cell
FlagOf(text) ==
    CASE text = "" -> Num("0")
      [] text = "x" -> Num("0")
      [] text = "1" -> Num("1")

\* C11: Store-Items prices are the decimal value of the cell with a comma read as
\* the decimal separator; an empty, absent, unparseable or zero cell gives null,
\* which is written as the empty field, never 0; is_active_planogram gives 0 on
\* empty or unparseable input.
C11_SIPrices ==
    (SIStarted /\ itemsData # <<>>) =>
        LET d == Input
            q == Qualifying(d)
        IN  \A j \in 1..Len(itemsData) :
                /\ itemsData[j].purchase_price = PriceOf(Field(d, q[j], "Purchase price"))
                /\ itemsData[j].retail_price = PriceOf(Field(d, q[j], "Sale price"))
                /\ itemsData[j].is_active_planogram = FlagOf(Field(d, q[j], "In assortment?"))
                /\ itemsData[j].purchase_price # Num("0")
                /\ itemsData[j].purchase_price = Null =>
                       CsvField(itemsData[j].purchase_price) = ""

C11_Witness ==
    LET d == Input
    IN  /\ SIDone
        /\ Len(itemsData) = 2
        /\ Field(d, 1, "Purchase price") = "12,50"
        /\ itemsData[1].purchase_price = Num("12.5")
        /\ Field(d, 2, "Purchase price") = "0,00"
        /\ itemsData[2].purchase_price = Null
        /\ itemsData[2].retail_price = Null
        /\ Field(d, 2, "In assortment?") = "x"

\* C12: the suppliers collection holds exactly one record per distinct non-empty
\* 'Supplier UID' of the rows processed so far that have both a store id and an
\* item id, and its name is the one of the first such row.
C12_SISupplierDedup ==
    SIStarted =>
        LET d == Input
            names(k) == /\ k < idx
                        /\ Field(d, k, "Store UID*") # ""
                        /\ Field(d, k, "Product UID*") # ""
                        /\ Field(d, k, "Supplier UID") # ""
            rows == {k \in 1..NumDataRows(d) : names(k)}
            ids == {Field(d, k, "Supplier UID") : k \in rows}
            first(id) == SetMin({k \in rows : Field(d, k, "Supplier UID") = id})
            suppliers == MapValues(suppliersMap)
        IN  /\ Len(suppliers) = Cardinality(ids)
            /\ {JsString(suppliers[i].supplier_uid) : i \in 1..Len(suppliers)} = ids
            /\ \A i \in 1..Len(suppliers) :
                  suppliers[i].name =
                      Str(Field(d, first(JsString(suppliers[i].supplier_uid)), "Supplier"))

\* two qualifying rows name the same supplier with different names
C12_Witness ==
    LET d == Input
    IN  /\ SIDone
        /\ Len(itemsData) = 2
        /\ Field(d, 1, "Supplier UID") # ""
        /\ Field(d, 1, "Supplier UID") = Field(d, 2, "Supplier UID")
        /\ Field(d, 1, "Supplier") # Field(d, 2, "Supplier")
        /\ Len(suppliersMap) = 1

-----------------------------------------------------------------------------
(* Claims about the Facts extractor.                                       *)

FactsStarted == detected.type = "FACTS" /\ pc \in {"rows", "done"}
FactsDone == detected.type = "FACTS" /\ pc = "done"

HasIds(d, k) == Field(d, k, "Product UID*") # "" /\ Field(d, k, "Store UID*") # ""

\* the date strings the 'Date*' text of a row may resolve to: the cell reaches the
\* extractor as text, so the typed-date and serial paths pass it on to the parse
DatesOf(d, k) ==
    IF Field(d, k, "Date*") = "" THEN {}
    ELSE UNION {{formatDateToYYYYMMDD(p, o) : p \in DateParse(Field(d, k, "Date*"), o) \ {InvalidDate}}
                  : o \in TimezoneOffsets}

\* whether the 'Date*' text of a row resolves whatever the runtime is
AlwaysResolves(d, k) ==
    /\ Field(d, k, "Date*") # ""
    /\ \A o \in TimezoneOffsets : InvalidDate \notin DateParse(Field(d, k, "Date*"), o)

\* the records are those of the rows of S, in input order
RecordsOf(d, S, records) ==
    LET in(k) == k \in S
        rows == Select(in, 1, NumDataRows(d))
    IN  /\ Len(records) = Len(rows)
        /\ \A j \in 1..Len(rows) :
              /\ records[j].item_uid = Str(Field(d, rows[j], "Product UID*"))
              /\ records[j].store_uid = Str(Field(d, rows[j], "Store UID*"))
              /\ records[j].date.t = "string"
              /\ records[j].date.v \in DatesOf(d, rows[j])

C14_FactsSerialDate ==
    FactsDone =>
        LET d == Input
        IN  (\A k \in 1..NumDataRows(d) :
                HasIds(d, k) /\ RawCell(d, k, "Date*") = Num("45000")) =>
                /\ Len(factsData) = NumDataRows(d)
                /\ \A j \in 1..Len(factsData) : factsData[j].date = Str("2023-03-15")

-----------------------------------------------------------------------------
(* Claims about the Stores extractor.                                      *)

StoresStarted == detected.type = "STORE" /\ pc \in {"rows", "done"}
StoresDone == detected.type = "STORE" /\ pc = "done"

\* the text of a field value, '' for null and undefined
TextOf(value) == IF IsNullish(value) THEN "" ELSE JsString(value)

\* the base-10 integer a cell text stands for; 0 for an empty or unparseable cell
IntOf(text) ==
    CASE text = "" -> Num("0")
      [] text = "abc" -> Num("0")
      [] text = "x" -> Num("0")
      [] text = "1" -> Num("1")
      [] text = "120" -> Num("120")

ScenarioSheet ==
    << <<Str("Store UID*"), Str("Store name*"), Str("Region"), Str("Square"),
         Str("In Shelf?"), Str("To delete")>>,
       <<Str("S1"), Str("Shop A"), Str("North"), Str("120"), Str("1"), Str("")>> >>

ScenarioContent ==
    "store_uid,name,region,group_name,floor_space,in_shelf,licence_start_date,is_deleted"
        \o "\n" \o "S1,Shop A,North,,120,1,2023-01-01,0"

\* C15: the stores table has one record per data row whose 'Store UID*' is
\* present, in input order; floor_space, in_shelf and is_deleted are the base-10
\* integer of their cells or 0; licence_start_date is 2023-01-01 on every record;
\* the scenario sheet yields the data line S1,Shop A,North,,120,1,2023-01-01,0.
C15_Stores ==
    StoresStarted =>
        LET d == Input
            has(k) == k < idx /\ Field(d, k, "Store UID*") # ""
            rows == Select(has, 1, NumDataRows(d))
        IN  /\ Len(storesData) = Len(rows)
            /\ \A j \in 1..Len(rows) :
                  /\ storesData[j].store_uid = Str(Field(d, rows[j], "Store UID*"))
                  /\ TextOf(storesData[j].name) = Field(d, rows[j], "Store name*")
                  /\ TextOf(storesData[j].region) = Field(d, rows[j], "Region")
                  /\ TextOf(storesData[j].group_name) = Field(d, rows[j], "Group name")
                  /\ storesData[j].floor_space = IntOf(Field(d, rows[j], "Square"))
                  /\ storesData[j].in_shelf = IntOf(Field(d, rows[j], "In Shelf?"))
                  /\ storesData[j].is_deleted = IntOf(Field(d, rows[j], "To delete"))
                  /\ storesData[j].licence_start_date = Str("2023-01-01")
            /\ pc = "done" =>
                  /\ Table("stores") = storesData
                  /\ TheSheet = ScenarioSheet =>
                        /\ csvs[1].name = "stores_" \o getTodayDateString \o ".csv"
                        /\ Content(csvs[1]) = ScenarioContent

C15_Witness ==
    /\ StoresDone
    /\ TheSheet = ScenarioSheet
    /\ Len(csvs) = 1
    /\ Content(csvs[1]) = ScenarioContent

-----------------------------------------------------------------------------
(* Claims about the gating of the side tables.                             *)

GateDone == pc = "done" /\ detected.type \in {"ITEM_MASTER", "ITEM_MASTER_V2", "STORE_ITEMS"}

\* the side tables of the detected type, and its primary table
SideTables ==
    IF detected.type = "STORE_ITEMS" THEN {"suppliers"}
    ELSE {"barcodes", "brands", "dimensions", "erpcategories", "manufacturers"}

PrimaryTable == IF detected.type = "STORE_ITEMS" THEN "items" ELSE "masteritems"

PrimaryCollection == IF detected.type = "STORE_ITEMS" THEN itemsData ELSE masteritemsData

\* the number of records collected for a side table
SizeOf(table) ==
    CASE table = "suppliers" -> Len(suppliersMap)
      [] table = "barcodes" -> Len(barcodesData)
      [] table = "dimensions" -> Len(dimensionsData)
      [] table = "brands" -> Len(seenBrands) + Len(brandsMap)
      [] table = "erpcategories" -> Len(seenErpCategories) + Len(erpCategoriesMap)
      [] table = "manufacturers" -> Len(seenManufacturers) + Len(manufacturersMap)

Emitted(table) ==
    \E i \in 1..Len(csvs) : csvs[i].name = table \o "_" \o getTodayDateString \o ".csv"

\* the option of the table is true or absent
Wanted(table) == table \notin DOMAIN options \/ options[table]

\* C16: a side table is emitted if and only if its option is true or absent and
\* its collection is non-empty; an option set to false removes that table only:
\* the primary table and every emitted side table hold all collected records.
C16_SideTableGating ==
    GateDone =>
        /\ \A t \in SideTables :
              /\ Emitted(t) <=> (Wanted(t) /\ SizeOf(t) > 0)
              /\ Emitted(t) => Len(Table(t)) = SizeOf(t)
        /\ Emitted(PrimaryTable) <=> Len(PrimaryCollection) > 0
        /\ Table(PrimaryTable) = PrimaryCollection
        /\ Len(csvs) = Cardinality({t \in SideTables \cup {PrimaryTable} : Emitted(t)})
        /\ Emitted("barcodes") => Table("barcodes") = barcodesData
        /\ Emitted("dimensions") => Table("dimensions") = dimensionsData
        /\ Emitted("suppliers") => Table("suppliers") = MapValues(suppliersMap)

\* brands is switched off and non-empty: it is missing, the other tables are there
C16_Witness ==
    /\ GateDone
    /\ detected.type = "ITEM_MASTER_V2"
    /\ options = [brands |-> FALSE]
    /\ SizeOf("brands") > 0
    /\ ~Emitted("brands")
    /\ Emitted("masteritems") /\ Emitted("barcodes") /\ Emitted("dimensions")
    /\ Emitted("erpcategories") /\ Emitted("manufacturers")

-----------------------------------------------------------------------------
(* Claims about arrayToCsv.                                                *)

CsvReturned == pc = "returned"

\* A standard (RFC 4180) CSV reader: fields are separated by commas, records by
\* line breaks; a field in double quotes may hold commas, line breaks and doubled
\* quotes; a line break at the very end of the text ends the last record.
RECURSIVE CsvRead(_, _, _)
CsvRead(text, k, st) ==
    IF k > Len(text)
    THEN IF st.started THEN Append(st.done, Append(st.record, st.field)) ELSE st.done
    ELSE LET c == Ch(text, k)
         IN  IF st.quoted
             THEN IF c = "\""
                  THEN IF Ch(text, k + 1) = "\""
                       THEN CsvRead(text, k + 2, [st EXCEPT !.field = @ \o "\""])
                       ELSE CsvRead(text, k + 1, [st EXCEPT !.quoted = FALSE])
                  ELSE CsvRead(text, k + 1, [st EXCEPT !.field = @ \o c])
             ELSE IF c = "\""
                  THEN CsvRead(text, k + 1, [st EXCEPT !.quoted = TRUE, !.started = TRUE])
             ELSE IF c = ","
                  THEN CsvRead(text, k + 1, [st EXCEPT !.record = Append(@, st.field),
                                                       !.field = "", !.started = TRUE])
             ELSE IF c = "\n"
                  THEN CsvRead(text, k + 1, [st EXCEPT !.done = Append(@, Append(st.record, st.field)),
                                                       !.record = <<>>, !.field = "",
                                                       !.started = FALSE])
             ELSE CsvRead(text, k + 1, [st EXCEPT !.field = @ \o c, !.started = TRUE])

ReadCsv(text) ==
    CsvRead(text, 1, [quoted |-> FALSE, started |-> FALSE, field |-> "",
                      record |-> <<>>, done |-> <<>>])

\* a field value as a string, null and undefined as the empty string
FieldText(x) == IF IsNullish(x) THEN "" ELSE JsString(x)

\* the field values of every record, in the declared column order
FieldTexts(data, columns) ==
    [r \in 1..Len(data) |-> [c \in 1..Len(columns) |-> FieldText(Get(data[r], columns[c]))]]

\* C17: read back with a standard CSV reader, the text arrayToCsv returns holds
\* the column list and then as many records as were written, each with the field
\* values of the written record as strings (null and undefined as '').
C17_CsvRoundTrip ==
    CsvReturned =>
        LET read == ReadCsv(content)
        IN  /\ Len(read) = Len(call.data) + 1
            /\ read[1] = call.columns
            /\ Tail(read) = FieldTexts(call.data, call.columns)

\* the same, for the calls without a line break in a field and without a
\* record whose line is empty
C17_RoundTripOfPlainCalls ==
    (/\ CsvReturned
     /\ \A r \in 1..Len(call.data) :
           /\ \A c \in 1..Len(call.columns) :
                 ~Includes(FieldText(Get(call.data[r], call.columns[c])), "\n")
           /\ CsvLine(call.data[r], call.columns) # "")
    => LET read == ReadCsv(content)
       IN  /\ Len(read) = Len(call.data) + 1
           /\ read[1] = call.columns
           /\ Tail(read) = FieldTexts(call.data, call.columns)

\* a record with a line break in a field was written
C17_LineBreakWritten ==
    /\ CsvReturned
    /\ call = [data |-> <<[a |-> Str("l1\nl2")]>>, columns |-> <<"a">>]
    /\ content = "a\nl1\nl2"
    /\ ReadCsv(content) = << <<"a">>, <<"l1">>, <<"l2">> >>

\* the string form of a field holds a comma or a double quote
HasCommaOrQuote(s) == \E k \in 1..Len(s) : Ch(s, k) \in {",", "\""}

\* s in double quotes, each double quote inside written twice
InQuotes(s) ==
    "\"" \o JoinStrings([k \in 1..Len(s) |-> IF Ch(s, k) = "\"" THEN "\"\"" ELSE Ch(s, k)], "")
         \o "\""

\* the text the claim gives for one field
WrittenField(x) ==
    IF IsNullish(x) THEN ""
    ELSE IF HasCommaOrQuote(JsString(x)) THEN InQuotes(JsString(x)) ELSE JsString(x)

\* the header line and the line of each record
LinesOf(data, columns) ==
    <<JoinStrings(columns, ",")>>
    \o [r \in 1..Len(data) |->
           JoinStrings([c \in 1..Len(columns) |-> WrittenField(Get(data[r], columns[c]))], ",")]

\* C18: the text is the header line followed by one comma-joined line per record;
\* a field is in double quotes, its quotes doubled, exactly when its string form
\* holds a comma or a double quote; null and undefined are written as the empty
\* string; a field the column list does not name is never written.
C18_CsvQuoting ==
    CsvReturned =>
        /\ content = JoinStrings(LinesOf(call.data, call.columns), "\n")
                        \o (IF Len(call.data) = 0 THEN "\n" ELSE "")
        /\ ~Includes(content, "zz")
        /\ \A r \in 1..Len(call.data) : \A c \in 1..Len(call.columns) :
              LET x == Get(call.data[r], call.columns[c])
              IN  /\ IsNullish(x) => CsvField(x) = ""
                  /\ ~IsNullish(x) =>
                        (Ch(CsvField(x), 1) = "\"" /\ Len(CsvField(x)) >= Len(JsString(x)) + 2)
                            <=> HasCommaOrQuote(JsString(x))

\* a comma, a quote, null, undefined and an unnamed field in one call
C18_Witness ==
    /\ CsvReturned
    /\ call = [data |-> <<[a |-> Str("x,y"), b |-> Str("q\"r")], [a |-> Null, c |-> Str("zz")]>>,
               columns |-> <<"b", "a">>]
    /\ content = "b,a\n\"q\"\"r\",\"x,y\"\n,"

-----------------------------------------------------------------------------
(* Claims about the outcome of a call and of a batch run.                  *)

CallEnded == pc \in {"done", "failed"}

\* the records that passed the mandatory-field filter of the detected type
Survivors ==
    CASE detected.type = "STORE" -> storesData
      [] detected.type = "STORE_ITEMS" -> itemsData
      [] detected.type = "FACTS" -> factsData
      [] detected.type \in {"ITEM_MASTER", "ITEM_MASTER_V2"} -> masteritemsData
      [] OTHER -> <<>>

\* the call has ended in one of: tables returned, no table returned because no
\* row survived, an error thrown with its message
OneOutcome ==
    CallEnded =>
        /\ pc = "done" =>
              /\ error = ""
              /\ detected.type \in {"STORE", "STORE_ITEMS", "FACTS", "ITEM_MASTER", "ITEM_MASTER_V2"}
              /\ Len(csvs) = 0 <=> Len(Survivors) = 0
        /\ pc = "failed" => error # "" /\ Len(csvs) = 0
        /\ detected.type \in {"UNKNOWN", "STOCK", "PRICE"} => pc = "failed"

\* during and after the loop of handleProcess: the files before the one at hand
\* are settled, and only the file whose call is running is 'processing'
StatusesSettled ==
    phase \in {"processing", "finished"} =>
        \A k \in 1..Len(fileInfos) :
            /\ k <= fileIndex => fileInfos[k].status \in {"success", "error"}
            /\ fileInfos[k].status = "processing" => k = fileIndex + 1 /\ pc # "idle"
            /\ phase = "finished" =>
                  /\ fileInfos[k].status \in {"success", "error"}
                  /\ fileInfos[k].status = "success"
                        <=> ~\E u \in 1..Len(statusUpdates) :
                                statusUpdates[u].fileIndex = k - 1 /\ statusUpdates[u].status = "error"

\* an outcome, once reached, is not replaced by another
OutcomeKept ==
    /\ pc = "done" => pc' \in {"done", "idle"}
    /\ pc = "failed" => pc' \in {"failed", "idle"}
    /\ phase \in {"processing", "finished"} =>
          \A k \in 1..Len(fileInfos) :
              fileInfos[k].status \in {"success", "error"}
                  => fileInfos'[k].status = fileInfos[k].status

\* C19: every call of generateCsvsFromExcel ends, and so does every run of
\* handleProcess; a call ends in exactly one of: one or more
\* tables returned, no table returned because no row survived the filter, an
\* error thrown with a message; UNKNOWN, STOCK and PRICE end in the error; in
\* handleProcess every attempted file ends 'success' or 'error', never both and
\* never left 'processing'.
C19_TerminalOutcome ==
    /\ [](OneOutcome /\ StatusesSettled)
    /\ [][OutcomeKept]_vars
    /\ (pc = "read") ~> CallEnded
    /\ (phase = "processing") ~> (phase = "finished")

\* a batch of two attempted files: the first returned no table, the second threw
C19_Witness ==
    /\ phase = "finished"
    /\ Len(fileInfos) = 2
    /\ fileInfos[1] = FileInfo("STORE", "success", "")
    /\ fileInfos[2].type = "ITEM_MASTER" /\ fileInfos[2].status = "error"
    /\ allGeneratedCsvs = <<>>

-----------------------------------------------------------------------------
(* Claims about failure isolation in a batch run.                          *)

\* the position in BatchFiles of the file at index j - 1
KindOf(j) == CHOOSE k \in 1..Len(BatchFiles) : BatchFiles[k] = files[j]

\* the files of BatchFiles that no call accepts: no template, STOCK, PRICE
FailsAlone(k) == k \in {1, 3, 6}

ReadFailure == "The requested file could not be read."

Signed(table, first) == <<table \o "_" \o getTodayDateString \o ".csv", 1, first>>

\* what each file of BatchFiles yields in a run of its own: per table its name,
\* its number of records and the first field of its first record
Alone(k, opts) ==
    CASE k = 2 -> <<Signed("stores", "S1")>>
      [] k = 7 -> <<Signed("stores", "S2")>>
      [] k \in {5, 8} ->
            <<Signed("masteritems", "X1")>>
            \o (IF "barcodes" \in DOMAIN opts /\ ~opts["barcodes"]
                THEN <<>> ELSE <<Signed("barcodes", "X1")>>)
            \o <<Signed("brands", "Acme"), Signed("manufacturers", "M1")>>
      [] k = 9 ->
            <<Signed("items", "P1")>>
            \o (IF "suppliers" \in DOMAIN opts /\ ~opts["suppliers"]
                THEN <<>> ELSE <<Signed("suppliers", "U1")>>)
      [] OTHER -> <<>>

Signature(tables) ==
    [t \in 1..Len(tables) |->
        <<tables[t].name, Len(tables[t].data),
          JsString(Get(tables[t].data[1], tables[t].columns[1]))>>]

\* the tables of the files 1..n that ended 'success', each as in a run of its own
RECURSIVE Collected(_)
Collected(n) ==
    IF n = 0 THEN <<>>
    ELSE Collected(n - 1)
            \o (IF fileInfos[n].status = "success" THEN Alone(KindOf(n), csvOptions) ELSE <<>>)

\* C20: in a batch run the loop reaches every file; a file ends 'error' only for
\* a reason of its own (no call accepts it, or its own read failed), whatever
\* happened to the other files; the tables collected are those each successful
\* file yields in a run of its own; the files not reached yet are untouched.
C20_FailureIsolation ==
    (phase \in {"processing", "finished"} /\ pc = "idle") =>
        /\ phase = "finished" => fileIndex = Len(files)
        /\ \A j \in 1..Len(files) :
              IF j <= fileIndex
              THEN /\ fileInfos[j].status \in {"success", "error"}
                   /\ fileInfos[j].status = "error"
                         <=> (FailsAlone(KindOf(j)) \/ fileInfos[j].error = ReadFailure)
                   /\ \E u \in 1..Len(statusUpdates) : statusUpdates[u].fileIndex = j - 1
              ELSE /\ fileInfos[j].status \in {"pending", "error"}
                   /\ fileInfos[j].status = "error"
                         <=> (FailsAlone(KindOf(j)) \/ fileInfos[j].error = ReadFailure)
        /\ Signature(allGeneratedCsvs) = Collected(fileIndex)

\* the first file threw when read, the second file was processed all the same
C20_Witness ==
    /\ phase = "finished"
    /\ Len(files) = 2
    /\ KindOf(1) = 2 /\ KindOf(2) = 7
    /\ fileInfos[1].type = "STORE" /\ fileInfos[1].status = "error"
    /\ fileInfos[1].error = ReadFailure
    /\ fileInfos[2] = FileInfo("STORE", "success", "")
    /\ Signature(allGeneratedCsvs) = <<Signed("stores", "S2")>>
    /\ Content(allGeneratedCsvs[1])
          = "store_uid,name,region,group_name,floor_space,in_shelf,licence_start_date,is_deleted"
               \o "\n" \o "S2,Shop B,,,0,0,2023-01-01,0"

-----------------------------------------------------------------------------
(* Claims about the outcome of a run.                                      *)

\* the entry handleProcess logs for a file it does not attempt
SkipEntry(k) == LogEntry("Skipping invalid file: " \o FileName(k - 1), "error", k - 1)

WasSkipped(k) == \E e \in 1..Len(statusUpdates) : statusUpdates[e] = SkipEntry(k)

\* the call for the k-th file threw during the run
FileFailed(k) == fileInfos[k].status = "error" /\ ~WasSkipped(k)

\* the call for the k-th file returned
FileProcessed(k) == fileInfos[k].status = "success"

C21_NoTableFailure ==
    /\ phase = "finished"
    /\ Len(allGeneratedCsvs) = 0
    /\ \E k \in 1..Len(fileInfos) : FileProcessed(k)
    /\ \E k \in 1..Len(fileInfos) : FileFailed(k)
    /\ processingState = "error"

-----------------------------------------------------------------------------
(* Claims about the archive.                                               *)

\* the archive holds table t as an entry of its own
Archived(t) == \E e \in 1..Len(zip) : zip[e].key = t.name /\ zip[e].value = t

\* C28: after a run that bundled the archive, the archive holds one entry per
\* CSV the successfully processed files generated, each with the content its
\* file gave it, also when two files generated a table of the same name.
C28_NoTableLost ==
    (phase = "finished" /\ zipUrl # Null) =>
        /\ Len(zip) = Len(allGeneratedCsvs)
        /\ \A i \in 1..Len(allGeneratedCsvs) : Archived(allGeneratedCsvs[i])

\* two Stores files were processed and the archive holds the table of the
\* second one only
C28_Overwritten ==
    /\ phase = "finished" /\ zipUrl # Null
    /\ Len(allGeneratedCsvs) = 2 /\ Len(zip) = 1
    /\ allGeneratedCsvs[1].name = allGeneratedCsvs[2].name
    /\ allGeneratedCsvs[1].data # allGeneratedCsvs[2].data
    /\ ~Archived(allGeneratedCsvs[1])
    /\ Archived(allGeneratedCsvs[2])

\* with distinct table names every generated table is in the archive
C28_DistinctNamesKept ==
    (/\ phase = "finished" /\ zipUrl # Null
     /\ \A i, j \in 1..Len(allGeneratedCsvs) :
            allGeneratedCsvs[i].name = allGeneratedCsvs[j].name => i = j) =>
        /\ Len(zip) = Len(allGeneratedCsvs)
        /\ \A i \in 1..Len(allGeneratedCsvs) : Archived(allGeneratedCsvs[i])

-----------------------------------------------------------------------------
(* Claims about the emitted tables.                                        *)

TableName(table) == CsvFile(table, <<>>, <<>>).name

\* the fields that identify a record of the table
IdentityFields(name) ==
    CASE name = TableName("stores") -> {"store_uid"}
      [] name = TableName("items") -> {"item_uid", "store_uid"}
      [] name = TableName("suppliers") -> {"supplier_uid"}
      [] name = TableName("facts") -> {"item_uid", "store_uid"}
      [] name = TableName("masteritems") -> {"item_uid"}
      [] name = TableName("barcodes") -> {"item_uid"}
      [] name = TableName("brands") -> {"brand_uid"}
      [] name = TableName("manufacturers") -> {"manufacturer_uid"}
      [] name = TableName("dimensions") -> {"dimension_uid"}
      [] name = TableName("erpcategories") -> {"erp_category_uid"}

\* neither null nor undefined nor the empty text
Present(x) == ~IsNullish(x) /\ JsString(x) # ""

\* the cells of the data rows under the header label
CellsUnder(label) ==
    LET rows == workbook[1].rows
    IN  {rows[r][c] : r \in 2..Len(rows),
                      c \in {d \in 1..Len(rows[1]) : rows[1][d] = Str(label)}}

\* C22: in every table an extractor returns, every record holds a value that
\* is neither null nor empty in each of its identity fields.
C22_IdentityPresent ==
    pc = "done" =>
        \A t \in 1..Len(csvs) : \A r \in 1..Len(csvs[t].data) :
            \A f \in IdentityFields(csvs[t].name) :
                /\ f \in DOMAIN csvs[t].data[r]
                /\ Present(csvs[t].data[r][f])

\* a Store-Items sheet with a row lacking its store id and a white supplier id
\* gave both of its tables
C22_Witness ==
    /\ pc = "done"
    /\ detected.type = "STORE_ITEMS"
    /\ Null \in CellsUnder("Store UID*")
    /\ Str(" ") \in CellsUnder("Supplier UID")
    /\ Len(csvs) = 2

\* an Item-Master v2 sheet with a white product id gave four tables
C22_WitnessV2 ==
    /\ pc = "done"
    /\ detected.type = "ITEM_MASTER_V2"
    /\ Str(" ") \in CellsUnder("UID*")
    /\ Len(csvs) = 4

-----------------------------------------------------------------------------
(* Claims about the header row.                                            *)

\* some string cell of the row contains some keyword of the detected type
HoldsKeyword(row) ==
    \E c \in 1..Len(row) : \E k \in 1..Len(FILE_TYPE_DEFINITIONS(detected.type)) :
        row[c].t = "string" /\ Includes(row[c].v, FILE_TYPE_DEFINITIONS(detected.type)[k])

\* row i (1-based) of the sheet is the first that holds a keyword
FirstKeywordRow(i) ==
    /\ i \in 1..Len(rawData)
    /\ HoldsKeyword(rawData[i])
    /\ \A j \in 1..(i - 1) : ~HoldsKeyword(rawData[j])

\* every row the extractor iterates over was built from a row below row i,
\* under the labels of row i, and in the order of the sheet
DataBelow(i) ==
    \E at \in [1..Len(df_template) -> (i + 1)..Len(rawData)] :
        /\ \A k \in 1..Len(df_template) :
              df_template[k] = RowObject(HeaderLabels(rawData[i]), rawData[at[k]])
        /\ \A k \in 2..Len(df_template) : at[k - 1] < at[k]

\* C23: an extractor takes as header row the first row of the sheet, however
\* far down, in which some string cell contains one of the keywords of its
\* type, and reads its data from the rows below it only; if no row holds a
\* keyword it throws and returns no table.
C23_HeaderLocation ==
    /\ pc \in {"rows", "done"} => \E i \in 1..Len(rawData) : FirstKeywordRow(i) /\ DataBelow(i)
    /\ pc = "failed" =>
          /\ \A i \in 1..Len(rawData) : ~HoldsKeyword(rawData[i])
          /\ csvs = <<>>
          /\ error # ""

\* the header row sits below the rows detection scans and the table was built
C23_Witness ==
    /\ pc = "done"
    /\ FirstKeywordRow(ScanLimit + 1)
    /\ Len(csvs) > 0

\* a row with one keyword only, above the row with all of them, is the header
C23_TitleRowTaken ==
    /\ pc = "done"
    /\ FirstKeywordRow(1)
    /\ Len(rawData) > 1 /\ HoldsKeyword(rawData[2])
    /\ Len(rawData[1]) = 1

\* a sheet without any keyword made the extractor throw
C23_Thrown ==
    /\ pc = "failed"
    /\ Len(rawData) > 0

-----------------------------------------------------------------------------
(* Claims about the categories of Item-Master v1.                          *)

LevelCode(row, level) == Get(row, levelMapping[level] \o " Code")

\* the rows the loop has been through; with ids only, those with a product id
RowsSeen(idsOnly) ==
    {r \in 1..(idx - 1) : idsOnly => NonBlank(Get(df_template[r], "UID*"))}

\* where a code shows: <<row, level>>
Sightings(idsOnly) ==
    {s \in RowsSeen(idsOnly) \X (1..Len(levelMapping)) :
        Truthy(LevelCode(df_template[s[1]], s[2]))}

SightingsOf(code, idsOnly) ==
    {s \in Sightings(idsOnly) : JsString(LevelCode(df_template[s[1]], s[2])) = code}

\* the first sighting of the code: the earliest row, and in it the shallowest level
FirstSighting(code, idsOnly) ==
    CHOOSE s \in SightingsOf(code, idsOnly) :
        \A o \in SightingsOf(code, idsOnly) :
            s[1] < o[1] \/ (s[1] = o[1] /\ s[2] <= o[2])

\* the record the claim gives the code
CategoryAt(s) ==
    LET row == df_template[s[1]]
    IN  [erp_category_uid |-> LevelCode(row, s[2]),
         name |-> Get(row, levelMapping[s[2]] \o " Description"),
         parent_category_uid |-> IF s[2] = 1 THEN Null ELSE LevelCode(row, s[2] - 1)]

CategoriesFromFirstSighting(idsOnly) ==
    LET codes == {JsString(LevelCode(df_template[s[1]], s[2])) : s \in Sightings(idsOnly)}
    IN  /\ \A code \in codes :
              /\ MapHas(seenErpCategories, code)
              /\ MapGet(seenErpCategories, code) = CategoryAt(FirstSighting(code, idsOnly))
        /\ \A e \in 1..Len(seenErpCategories) : seenErpCategories[e].key \in codes

\* C24 as stated: a v1 category is the record of the first sighting of its code
\* across all data rows (name from the level's description, parent from the
\* next-shallower level's code on that row, null for Segment), and no later
\* row changes it.
C24_FirstSightingOfAllRows ==
    (pc \in {"rows", "done"} /\ detected.type = "ITEM_MASTER") =>
        CategoriesFromFirstSighting(FALSE)

\* C24 amended: a v1 category is the record of the first sighting of its code
\* among the rows that carry a product id; rows without one register nothing.
C24_FirstSightingOfItemRows ==
    (pc \in {"rows", "done"} /\ detected.type = "ITEM_MASTER") =>
        /\ CategoriesFromFirstSighting(TRUE)
        /\ pc = "done" /\ Len(masteritemsData) > 0 /\ Len(seenErpCategories) > 0 =>
              \E t \in 1..Len(csvs) :
                  /\ csvs[t].name = CsvFile("erpcategories", <<>>, <<>>).name
                  /\ csvs[t].data = MapValues(seenErpCategories)

\* a code came back on a later row with a product id, under another parent and
\* with another description, and the first record stayed
C24_Witness ==
    /\ pc = "done" /\ detected.type = "ITEM_MASTER"
    /\ Len(df_template) = 2
    /\ \E code \in {"A"} :
          /\ NonBlank(Get(df_template[1], "UID*")) /\ NonBlank(Get(df_template[2], "UID*"))
          /\ SightingsOf(code, TRUE) = {<<1, 2>>, <<2, 2>>}
          /\ CategoryAt(<<1, 2>>).parent_category_uid # CategoryAt(<<2, 2>>).parent_category_uid
          /\ CategoryAt(<<1, 2>>).name # CategoryAt(<<2, 2>>).name
          /\ MapGet(seenErpCategories, code) = CategoryAt(<<1, 2>>)

\* the first row that shows the code has no product id: the category is the
\* record of the second row
C24_SkippedRow ==
    /\ pc = "done" /\ detected.type = "ITEM_MASTER"
    /\ Len(df_template) = 2
    /\ ~NonBlank(Get(df_template[1], "UID*")) /\ NonBlank(Get(df_template[2], "UID*"))
    /\ SightingsOf("A", FALSE) = {<<1, 2>>, <<2, 2>>}
    /\ CategoryAt(<<1, 2>>) # CategoryAt(<<2, 2>>)
    /\ MapGet(seenErpCategories, "A") = CategoryAt(<<2, 2>>)

-----------------------------------------------------------------------------
(* Claims about detection followed by extraction.                          *)

HeaderErrors ==
    { "Could not find a valid header row in the Stores sheet.",
      "Could not find a valid header row in the Items sheet.",
      "Could not find a valid header row in the Facts sheet.",
      "Could not find header row in Masteritems file.",
      "Could not find header row in the new Masteritems file." }

\* row r (1-based) of the chosen sheet is the row detection matched
DetectionRow(r) ==
    LET jsonData == SheetRows(workbook, detected.sheetName)
        keywords == FILE_TYPE_DEFINITIONS(detected.type)
    IN  /\ r \in 1..Len(jsonData) /\ r <= ScanLimit
        /\ RowMatches(jsonData[r], keywords)
        /\ \A q \in 1..(r - 1) : ~RowMatches(jsonData[q], keywords)

\* C25: once detectFileType has matched a type at row r of a sheet, the
\* extractor of that type finds its header row in that sheet at row r or
\* above, and never throws for want of a header row.
C25_HeaderFound ==
    /\ error \notin HeaderErrors
    /\ (pc \in {"rows", "done"} /\ detected.type \in ExtractedTypes) =>
          \E r \in 1..Len(rawData) : \E i \in 1..r : DetectionRow(r) /\ FirstKeywordRow(i)

\* detection matched the second row and the extractor took the row above it,
\* which holds one keyword only, as header
C25_Witness ==
    /\ pc = "done"
    /\ detected.sheetName = Str("Sheet1")
    /\ DetectionRow(2) /\ FirstKeywordRow(1)

\* the header row sits below the rows detection scans: no extractor is called
C25_BelowScan ==
    /\ pc = "failed"
    /\ error = "Unknown file type. The file does not match any known templates."
    /\ \E s \in 1..Len(workbook) : Len(workbook[s].rows) > ScanLimit

-----------------------------------------------------------------------------
(* Claims about the references of the Item-Master tables.                  *)

\* the records of the named table among the returned CSVs
TableRecords(table) ==
    LET hits == {t \in 1..Len(csvs) : csvs[t].name = TableName(table)}
    IN  IF hits = {} THEN <<>> ELSE csvs[CHOOSE t \in hits : TRUE].data

\* some record of the table has the value as its identity
Referenced(value, table, idField) ==
    \E r \in 1..Len(TableRecords(table)) :
        JsString(TableRecords(table)[r][idField]) = JsString(value)

ItemReferences ==
    { <<"brand_uid", "brands">>, <<"manufacturer_uid", "manufacturers">>,
      <<"erp_category_uid", "erpcategories">> }

\* C26: with every option on, each non-blank brand_uid, manufacturer_uid and
\* erp_category_uid of a masteritems record (v1 and v2) is the identity of a
\* record of the brands, manufacturers and erpcategories table of the same run.
C26_ReferencesResolve ==
    (/\ pc = "done"
     /\ detected.type \in {"ITEM_MASTER", "ITEM_MASTER_V2"}
     /\ \A name \in DOMAIN options : options[name]) =>
        \A m \in 1..Len(TableRecords("masteritems")) : \A ref \in ItemReferences :
            NonBlank(TableRecords("masteritems")[m][ref[1]]) =>
                Referenced(TableRecords("masteritems")[m][ref[1]], ref[2], ref[1])

\* a v2 item that names its manufacturer by UID and its brand by name only
C26_Witness ==
    /\ pc = "done" /\ detected.type = "ITEM_MASTER_V2"
    /\ \E m \in 1..Len(TableRecords("masteritems")) :
          /\ TableRecords("masteritems")[m].manufacturer_uid = Str("M1")
          /\ TableRecords("masteritems")[m].brand_uid = Str("Acme")
          /\ Referenced(Str("M1"), "manufacturers", "manufacturer_uid")
          /\ Referenced(Str("Acme"), "brands", "brand_uid")

\* a v1 item with a Brick Code, and a v2 item whose category is a level name
C26_WitnessCategories ==
    /\ pc = "done"
    /\ \E m \in 1..Len(TableRecords("masteritems")) :
          /\ TableRecords("masteritems")[m].erp_category_uid \in {Str("K"), Str("c")}
          /\ Len(TableRecords("erpcategories")) >= 2

-----------------------------------------------------------------------------
(* Claims about the category tree of Item-Master v2.                       *)

\* the id the record of the given id names as parent ("" if there is none)
ParentId(id) ==
    LET recs == TableRecords("erpcategories")
        hits == {r \in 1..Len(recs) : JsString(recs[r].erp_category_uid) = id}
    IN  IF hits = {} THEN ""
        ELSE LET parent == recs[CHOOSE r \in hits : TRUE].parent_category_uid
             IN  IF IsNullish(parent) THEN "" ELSE JsString(parent)

\* the id reached from id after n parent links
RECURSIVE Up(_, _)
Up(id, n) == IF n = 0 \/ id = "" THEN id ELSE Up(ParentId(id), n - 1)

ReturnsToItself(id) == \E n \in 1..Len(TableRecords("erpcategories")) : Up(id, n) = id

\* C27: in the erpcategories table of the Item-Master v2 extractor no record
\* is reached again by following parent_category_uid links from it.
C27_Acyclic ==
    (pc = "done" /\ detected.type = "ITEM_MASTER_V2") =>
        \A r \in 1..Len(TableRecords("erpcategories")) :
            ~ReturnsToItself(JsString(TableRecords("erpcategories")[r].erp_category_uid))

\* one row with the same UID at both levels: the record is its own parent
C27_SelfParent ==
    /\ pc = "done" /\ detected.type = "ITEM_MASTER_V2"
    /\ Len(df_template) = 1
    /\ ParentId("A") = "A"

\* two rows with the two ids in swapped levels: each is the parent of the other
C27_TwoCycle ==
    /\ pc = "done" /\ detected.type = "ITEM_MASTER_V2"
    /\ ParentId("A") = "B" /\ ParentId("B") = "A"

-----------------------------------------------------------------------------
(* Claims about the log.                                                   *)

\* the log entries of the k-th file, in order
EntriesOf(k) ==
    LET RECURSIVE Pick(_)
        Pick(e) == IF e > Len(statusUpdates) THEN <<>>
                   ELSE (IF statusUpdates[e].fileIndex = k - 1
                         THEN <<statusUpdates[e]>> ELSE <<>>) \o Pick(e + 1)
    IN  Pick(1)

AllHaveStatus(entries, status) == \A e \in 1..Len(entries) : entries[e].status = status

\* the events of the running call: 'processing' throughout, but for one
\* closing 'success' event once the call has returned
CallEventsOrdered ==
    CASE pc = "done" -> /\ Len(log) > 0
                        /\ log[Len(log)].status = "success"
                        /\ \A e \in 1..(Len(log) - 1) : log[e].status = "processing"
      [] pc = "idle" -> TRUE
      [] OTHER -> \A e \in 1..Len(log) : log[e].status = "processing"

\* C30: when handleProcess has completed no log entry is 'processing': the
\* entries of a file whose call returned are all 'success', those of a file
\* whose call threw are all 'error', and a file that was invalid has the single
\* 'Skipping' entry and no entry of a call; within a call the 'processing'
\* events come before its single 'success' event.
C30_LogFinal ==
    /\ CallEventsOrdered
    /\ phase = "finished" =>
          /\ \A e \in 1..Len(statusUpdates) : statusUpdates[e].status # "processing"
          /\ \A k \in 1..Len(fileInfos) :
                /\ FileProcessed(k) =>
                      Len(EntriesOf(k)) >= 2 /\ AllHaveStatus(EntriesOf(k), "success")
                /\ FileFailed(k) =>
                      Len(EntriesOf(k)) >= 2 /\ AllHaveStatus(EntriesOf(k), "error")
                /\ (~FileProcessed(k) /\ ~FileFailed(k)) => EntriesOf(k) = <<SkipEntry(k)>>

\* a finished run with a file that returned after three events or more, and a
\* file that threw
C30_Witness ==
    /\ phase = "finished"
    /\ \E k \in 1..Len(fileInfos) : FileProcessed(k) /\ Len(EntriesOf(k)) >= 3
    /\ \E k \in 1..Len(fileInfos) : FileFailed(k)

\* a finished run with a skipped file next to a processed one
C30_WitnessSkipped ==
    /\ phase = "finished"
    /\ \E k \in 1..Len(fileInfos) : FileProcessed(k)
    /\ \E k \in 1..Len(fileInfos) : EntriesOf(k) = <<SkipEntry(k)>>

-----------------------------------------------------------------------------
(* Claims about overlapping selections.                                    *)

\* the entry of the file list a detection result leaves behind
InfoAfter(result) ==
    IF result.error # "" THEN FileInfo(result.type, "error", result.error)
    ELSE FileInfo(result.type, "pending", "")

\* the k-th entry of the list is still pending or shows what was detected for
\* the k-th file of the list
OwnResult(k) ==
    fileInfos[k] \in { FileInfo("UNKNOWN", "pending", ""),
                       InfoAfter(DetectionResult(files[k], k - 1)),
                       InfoAfter(DetectionReadFailure(k - 1)) }

\* C29: the type and the error of every entry of the file list are those
\* detected for that file of that list, in whatever order the detections
\* settle, and results that arrive after Reset or after another folder was
\* selected neither change the list nor reach past its end.
C29_ResultsOfOwnList ==
    /\ uncaught = ""
    /\ Len(fileInfos) = Len(files)
    /\ \A k \in 1..Len(fileInfos) : OwnResult(k)

\* Reset was pressed while a detection was running: the late results index an
\* empty list and the updater throws
C29_ThrowsAfterReset ==
    /\ uncaught # ""
    /\ Len(selections) = 1
    /\ fileInfos = <<>>

\* another folder was selected while the detections of the first were running:
\* its Stores file is listed with the error of the first folder's unknown file
C29_ForeignResult ==
    /\ uncaught = ""
    /\ Len(selections) = 2
    /\ \A s \in 1..2 : selections[s].applied
    /\ \E k \in 1..Len(fileInfos) :
          /\ DetectionResult(files[k], k - 1).type = "STORE"
          /\ fileInfos[k].status = "error"
          /\ fileInfos[k].error = "Unknown file type. The file does not match any known templates."

\* a single selection left alone gets the results of its own files, in whatever
\* order its detections settle
C29_SingleSelection ==
    (Len(selections) = 1 /\ files = selections[1].validFiles) =>
        /\ uncaught = ""
        /\ \A k \in 1..Len(fileInfos) : OwnResult(k)
        /\ selections[1].applied =>
              \A k \in 1..Len(fileInfos) : fileInfos[k] = InfoAfter(selections[1].results[k])

\* the detection summary agrees with generateCsvsFromExcel run step by step
C29_SummaryAgrees ==
    (phase = "detecting" /\ pc \in {"done", "failed"}) =>
        (IF pc = "done"
         THEN [index |-> fileIndex, type |-> detected.type, error |-> ""]
         ELSE [index |-> fileIndex, type |-> "UNKNOWN", error |-> error])
            \in { DetectionResult(files[fileIndex + 1], fileIndex),
                  DetectionReadFailure(fileIndex) }

=============================================================================
